---- MODULE Spec2Model ----
(***************************************************************************)
(* Verification model of gomerk: array-layout Merkle trees with a          *)
(* commutative pair hash, single proofs, flag-encoded multi-proofs, the    *)
(* Simple and Standard facades and their dump/load format.                 *)
(*                                                                         *)
(* Representation.  A byte string is a sequence of integers.  A 32-byte    *)
(* value (Bytes32) is scaled down to one "word": either a raw word of      *)
(* WordLen bytes in 0..ByteBase-1, or one digest code word produced by     *)
(* Keccak256.  Keccak256 is the collision-free idealisation of the hash:   *)
(* it brackets its input between an opening symbol, which carries a        *)
(* pseudo-random mix of the input so that the byte order of digests is     *)
(* unrelated to the order of their preimages, and a closing symbol.  Code  *)
(* words are prefix free, so the concatenation of two words determines     *)
(* both.  A hex string is a sequence of characters: an optional "0x"       *)
(* prefix character followed by one digit character per byte.  Tree        *)
(* indices are the 0-based indices of the Go code; At0 reads them.         *)
(***************************************************************************)
EXTENDS Integers, Sequences, FiniteSets, TLC

\* ---------------------------------------------------------------- bounds
MaxLeaves == 4
NumLeafVals == 2
NumVals == 3
WordLen == 2
ByteBase == 3

\* ------------------------------------------------------------ characters
CloseSym == 200
PrefixChar == 999
LowerBase == 1000
UpperBase == 2000

OpenSym(m) == 100 + m
IsOpen(x) == x >= 100 /\ x < 200

At0(s, i) == s[i + 1]

\* x := e; F(x): the right-hand side of an assignment is evaluated once and
\* the statements after it read its value
With(e, F(_)) == CHOOSE r \in {F(x) : x \in {e}} : TRUE

RECURSIVE SeqSumW(_, _)
SeqSumW(s, i) == IF i > Len(s) THEN 0 ELSE i * s[i] + SeqSumW(s, i + 1)

\* ---------------------------------------------------------------- errors
NoErr == "nil"

\* --------------------------------------------------------------- Bytes32
ZeroBytes32 == [i \in 1..WordLen |-> 0]

\* position of the symbol closing the bracket opened at s[i], 0 if none
RECURSIVE MatchFrom(_, _, _)
MatchFrom(s, i, depth) ==
  IF i > Len(s) THEN 0
  ELSE LET d == IF IsOpen(s[i]) THEN depth + 1
                ELSE IF s[i] = CloseSym THEN depth - 1 ELSE depth
       IN IF d = 0 THEN i ELSE MatchFrom(s, i + 1, d)

\* len(data) == 32: exactly one word
HasLen32(data) ==
  \/ Len(data) = WordLen /\ \A i \in 1..Len(data) : data[i] \in 0..(ByteBase - 1)
  \/ Len(data) > 0 /\ IsOpen(data[1]) /\ MatchFrom(data, 1, 0) = Len(data)

\* bytes.Compare: lexicographic, a proper prefix is smaller
RECURSIVE CompareFrom(_, _, _)
CompareFrom(a, b, i) ==
  IF i > Len(a) /\ i > Len(b) THEN 0
  ELSE IF i > Len(a) THEN -1
  ELSE IF i > Len(b) THEN 1
  ELSE IF a[i] < b[i] THEN -1
  ELSE IF a[i] > b[i] THEN 1
  ELSE CompareFrom(a, b, i + 1)

Compare(a, b) == CompareFrom(a, b, 1)
Less(a, b) == Compare(a, b) < 0

Hex(b) == <<PrefixChar>> \o [i \in 1..Len(b) |-> LowerBase + b[i]]

\* strings.TrimPrefix(s, "0x")
TrimPrefix0x(s) == IF Len(s) > 0 /\ s[1] = PrefixChar THEN Tail(s) ELSE s

\* hex.DecodeString accepts lower-case digits and, for the digits that are
\* letters (value >= 10), their upper-case form
IsHexChar(c) ==
  \/ c >= LowerBase /\ c < UpperBase
  \/ c >= UpperBase + 10 /\ c < UpperBase + LowerBase
HexCharVal(c) == IF c >= UpperBase THEN c - UpperBase ELSE c - LowerBase

HexToBytes32(s) ==
  LET t == TrimPrefix0x(s)
      data == [i \in 1..Len(t) |-> HexCharVal(t[i])]
  IN IF \E i \in 1..Len(t) : ~IsHexChar(t[i])
       THEN [val |-> ZeroBytes32, err |-> "ErrInvalidHex"]
     ELSE IF ~HasLen32(data)
       THEN [val |-> ZeroBytes32, err |-> "ErrInvalidNodeLength"]
     ELSE [val |-> data, err |-> NoErr]

\* variant: the pair is concatenated as given
ConcatSortedKeepsOrder(a, b) == a \o b

ConcatSorted(a, b) == IF Less(a, b) THEN a \o b ELSE b \o a

\* ---------------------------------------------------------------- hashes
Keccak256(data) == <<OpenSym(SeqSumW(data, 1) % 7)>> \o data \o <<CloseSym>>
HashLeaf(data) == Keccak256(Keccak256(data))
HashNode(a, b) == Keccak256(ConcatSorted(a, b))

\* ------------------------------------------------------------- core tree
leftChild(i) == 2 * i + 1
rightChild(i) == 2 * i + 2
\* Go integer division truncates toward zero
parent(i) == IF i >= 1 THEN (i - 1) \div 2 ELSE -((1 - i) \div 2)
\* mutant: the exclusive or applied to the index itself
siblingOfIndex(i) == IF i % 2 = 0 THEN i + 1 ELSE i - 1

\* ((i + 1) ^ 1) - 1: the exclusive or flips the lowest bit of i + 1
sibling(i) == IF (i + 1) % 2 = 0 THEN i + 1 ELSE i - 1

isTreeNode(n, i) == i >= 0 /\ i < n
isInternalNode(n, i) == isTreeNode(n, leftChild(i))
isLeafNode(n, i) == isTreeNode(n, i) /\ ~isInternalNode(n, i)
isValidNode(s) == HexToBytes32(s).err = NoErr

\* variant: the leaf test is made before the range test
checkLeafLeafFirst(n, i) ==
  IF ~isLeafNode(n, i) THEN "ErrNotALeaf"
  ELSE IF ~isTreeNode(n, i) THEN "ErrIndexOutOfBounds"
  ELSE NoErr

checkLeaf(n, i) ==
  IF ~isTreeNode(n, i) THEN "ErrIndexOutOfBounds"
  ELSE IF ~isLeafNode(n, i) THEN "ErrNotALeaf"
  ELSE NoErr

RECURSIVE FillInternal(_, _)
FillInternal(tree, i) ==
  IF i < 0 THEN tree
  ELSE LET l == HexToBytes32(At0(tree, leftChild(i))).val
           r == HexToBytes32(At0(tree, rightChild(i))).val
       IN FillInternal([tree EXCEPT ![i + 1] = Hex(HashNode(l, r))], i - 1)

\* mutant: the fill loop starts one node too low
MakeTreeSkipsNode(leaves) ==
  IF Len(leaves) = 0 THEN [tree |-> <<>>, err |-> "ErrEmptyTree"]
  ELSE LET n == 2 * Len(leaves) - 1
           placed == [k \in 1..n |->
                        IF k - 1 >= n - Len(leaves)
                          THEN Hex(leaves[(n - 1 - (k - 1)) + 1])
                          ELSE <<>>]
       IN [tree |-> FillInternal(placed, n - 2 - Len(leaves)), err |-> NoErr]

MakeTree(leaves) ==
  IF Len(leaves) = 0 THEN [tree |-> <<>>, err |-> "ErrEmptyTree"]
  ELSE LET n == 2 * Len(leaves) - 1
           placed == [k \in 1..n |->
                        IF k - 1 >= n - Len(leaves)
                          THEN Hex(leaves[(n - 1 - (k - 1)) + 1])
                          ELSE <<>>]
       IN [tree |-> FillInternal(placed, n - 1 - Len(leaves)), err |-> NoErr]

\* reading tree[i] outside the array is a run-time panic
Panic == "panic: index out of range"
InRange(s, i) == i >= 0 /\ i < Len(s)

RECURSIVE ProofWalk(_, _, _)
ProofWalk(tree, index, proof) ==
  IF index > 0
    THEN IF ~InRange(tree, sibling(index))
           THEN [proof |-> <<>>, err |-> Panic]
           ELSE ProofWalk(tree, parent(index),
                          Append(proof, At0(tree, sibling(index))))
    ELSE [proof |-> proof, err |-> NoErr]

GetProof(tree, index) ==
  IF checkLeaf(Len(tree), index) # NoErr
    THEN [proof |-> <<>>, err |-> checkLeaf(Len(tree), index)]
    ELSE ProofWalk(tree, index, <<>>)

RECURSIVE ProofFold(_, _, _)
ProofFold(current, proof, k) ==
  IF k > Len(proof) THEN [root |-> Hex(current), err |-> NoErr]
  ELSE LET s == HexToBytes32(proof[k])
       IN IF s.err # NoErr THEN [root |-> <<>>, err |-> s.err]
          ELSE ProofFold(HashNode(current, s.val), proof, k + 1)

ProcessProof(leaf, proof) == ProofFold(leaf, proof, 1)

\* ------------------------------------------------------------ multi-proof
NoMultiProof == [Leaves |-> <<>>, Proof |-> <<>>, ProofFlags |-> <<>>]

\* mutant: the indices are left in caller order
SortDescKeepsOrder(s) == s

\* slices.SortFunc(sorted, func(a, b int) int { return b - a })
RECURSIVE InsertDesc(_, _)
InsertDesc(s, x) ==
  IF s = <<>> THEN <<x>>
  ELSE IF x - Head(s) >= 0 THEN <<x>> \o s
  ELSE <<Head(s)>> \o InsertDesc(Tail(s), x)

RECURSIVE SortDesc(_)
SortDesc(s) == IF s = <<>> THEN <<>> ELSE InsertDesc(SortDesc(Tail(s)), Head(s))

\* the seen-map loop over the sorted indices
\* variant: only the first two of the sorted indices are compared
HasDuplicateAtHead(s) == Len(s) >= 2 /\ s[1] = s[2]

HasDuplicate(s) == \E i, j \in 1..Len(s) : i < j /\ s[i] = s[j]

\* first error of checkLeaf over the indices, in caller order
RECURSIVE FirstLeafErr(_, _, _)
FirstLeafErr(n, indices, k) ==
  IF k > Len(indices) THEN NoErr
  ELSE IF checkLeaf(n, indices[k]) # NoErr THEN checkLeaf(n, indices[k])
  ELSE FirstLeafErr(n, indices, k + 1)

\* slices.BinarySearchFunc(stack, p, func(a, b int) int { return b - a }),
\* with 0-based bounds lo, hi
RECURSIVE BinarySearchDesc(_, _, _, _)
BinarySearchDesc(stack, p, lo, hi) ==
  IF lo < hi
    THEN LET h == (lo + hi) \div 2
         IN IF p - At0(stack, h) < 0
              THEN BinarySearchDesc(stack, p, h + 1, hi)
              ELSE BinarySearchDesc(stack, p, lo, h)
    ELSE lo

\* mutant: the parent is pushed on the head of the queue
InsertAtHead(stack, pos, p) == <<p>> \o stack

\* slices.Insert(stack, pos, p)
InsertAt(stack, pos, p) ==
  SubSeq(stack, 1, pos) \o <<p>> \o SubSeq(stack, pos + 1, Len(stack))

\* mutant: the sibling is appended to the proof also when it was paired
MultiProofStepAlwaysProof(tree, st) ==
  LET j == st.stack[1]
      rest == Tail(st.stack)
      s == sibling(j)
      p == parent(j)
      paired == Len(rest) > 0 /\ s = rest[1]
      stack1 == IF paired THEN Tail(rest) ELSE rest
      pos == BinarySearchDesc(stack1, p, 0, Len(stack1))
  IN IF ~InRange(tree, s)
       THEN [st EXCEPT !.err = Panic]
       ELSE [stack |-> SubSeq(stack1, 1, pos) \o <<p>> \o SubSeq(stack1, pos + 1, Len(stack1)),
             proof |-> Append(st.proof, At0(tree, s)),
             flags |-> Append(st.flags, paired),
             err |-> NoErr]

\* one iteration of the loop of GetMultiProof; st = [stack, proof, flags, err]
MultiProofStep(tree, st) ==
  LET j == st.stack[1]
      rest == Tail(st.stack)
      s == sibling(j)
      p == parent(j)
      paired == Len(rest) > 0 /\ s = rest[1]
      stack1 == IF paired THEN Tail(rest) ELSE rest
      pos == BinarySearchDesc(stack1, p, 0, Len(stack1))
  IN IF ~paired /\ ~InRange(tree, s)
       THEN [st EXCEPT !.err = Panic]
       ELSE [stack |-> InsertAt(stack1, pos, p),
             proof |-> IF paired THEN st.proof ELSE Append(st.proof, At0(tree, s)),
             flags |-> Append(st.flags, paired),
             err |-> NoErr]

\* variant: the loop stops as soon as one element is left
MultiProofLoopGuardMany(st) == Len(st.stack) > 1

MultiProofLoopGuard(st) == Len(st.stack) > 0 /\ st.stack[1] > 0

RECURSIVE MultiProofLoop(_, _)
MultiProofLoop(tree, st) ==
  IF st.err = NoErr /\ MultiProofLoopGuard(st)
    THEN MultiProofLoop(tree, MultiProofStep(tree, st))
    ELSE st

\* mutant: the root is never appended to the proof
GetMultiProofNoRoot(tree, indices) ==
  LET e == FirstLeafErr(Len(tree), indices, 1)
      sorted == SortDesc(indices)
      fin == MultiProofLoop(tree, [stack |-> sorted, proof |-> <<>>,
                                   flags |-> <<>>, err |-> NoErr])
  IN IF e # NoErr THEN [mp |-> NoMultiProof, err |-> e]
     ELSE IF HasDuplicate(sorted) THEN [mp |-> NoMultiProof, err |-> "ErrDuplicatedIndex"]
     ELSE IF fin.err # NoErr THEN [mp |-> NoMultiProof, err |-> fin.err]
     ELSE [mp |-> [Leaves |-> [k \in 1..Len(sorted) |-> At0(tree, sorted[k])],
                   Proof |-> fin.proof,
                   ProofFlags |-> fin.flags],
           err |-> NoErr]

GetMultiProof(tree, indices) ==
  LET e == FirstLeafErr(Len(tree), indices, 1)
      sorted == SortDesc(indices)
      fin == MultiProofLoop(tree, [stack |-> sorted, proof |-> <<>>,
                                   flags |-> <<>>, err |-> NoErr])
  IN IF e # NoErr THEN [mp |-> NoMultiProof, err |-> e]
     ELSE IF HasDuplicate(sorted) THEN [mp |-> NoMultiProof, err |-> "ErrDuplicatedIndex"]
     ELSE IF fin.err # NoErr THEN [mp |-> NoMultiProof, err |-> fin.err]
     ELSE IF Len(fin.stack) # 1 /\ ~InRange(tree, 0)
       THEN [mp |-> NoMultiProof, err |-> Panic]
     ELSE [mp |-> [Leaves |-> [k \in 1..Len(sorted) |-> At0(tree, sorted[k])],
                   Proof |-> IF Len(fin.stack) # 1
                               THEN Append(fin.proof, At0(tree, 0))
                               ELSE fin.proof,
                   ProofFlags |-> fin.flags],
           err |-> NoErr]

\* parse mp.Leaves onto the queue; the first malformed entry is the error
RECURSIVE ParseAll(_, _, _)
ParseAll(strs, k, acc) ==
  IF k > Len(strs) THEN [vals |-> acc, err |-> NoErr]
  ELSE LET b == HexToBytes32(strs[k])
       IN IF b.err # NoErr THEN [vals |-> <<>>, err |-> b.err]
          ELSE ParseAll(strs, k + 1, Append(acc, b.val))

\* the loop over mp.ProofFlags, k the index of the next flag
RECURSIVE MultiProofFold(_, _, _, _)
MultiProofFold(mp, stack, proofIdx, k) ==
  IF k > Len(mp.ProofFlags)
    THEN IF Len(stack) = 1 THEN [root |-> Hex(stack[1]), err |-> NoErr]
         ELSE IF proofIdx < Len(mp.Proof)
           THEN [root |-> At0(mp.Proof, proofIdx), err |-> NoErr]
         ELSE [root |-> <<>>, err |-> "ErrInvariant"]
  ELSE IF Len(stack) = 0 THEN [root |-> <<>>, err |-> "ErrInvariant"]
  ELSE LET a == stack[1]
           rest == Tail(stack)
       IN IF mp.ProofFlags[k]
            THEN IF Len(rest) = 0 THEN [root |-> <<>>, err |-> "ErrInvariant"]
                 ELSE MultiProofFold(mp, Append(Tail(rest), HashNode(a, rest[1])),
                                     proofIdx, k + 1)
            ELSE IF proofIdx >= Len(mp.Proof)
                   THEN [root |-> <<>>, err |-> "ErrInvariant"]
                 ELSE LET b == HexToBytes32(At0(mp.Proof, proofIdx))
                      IN IF b.err # NoErr THEN [root |-> <<>>, err |-> b.err]
                         ELSE MultiProofFold(mp, Append(rest, HashNode(a, b.val)),
                                             proofIdx + 1, k + 1)

\* variant: the lengths are not compared before the loop
ProcessMultiProofNoLengthCheck(mp) ==
  LET parsed == ParseAll(mp.Leaves, 1, <<>>)
  IN IF parsed.err # NoErr THEN [root |-> <<>>, err |-> parsed.err]
     ELSE MultiProofFold(mp, parsed.vals, 0, 1)

ProcessMultiProof(mp) ==
  IF Len(mp.Leaves) + Len(mp.Proof) # Len(mp.ProofFlags) + 1
    THEN [root |-> <<>>, err |-> "ErrInvariant"]
  ELSE LET parsed == ParseAll(mp.Leaves, 1, <<>>)
       IN IF parsed.err # NoErr THEN [root |-> <<>>, err |-> parsed.err]
          ELSE MultiProofFold(mp, parsed.vals, 0, 1)

\* ------------------------------------------------------------ validation
\* variant: a node with a left child only is passed over
ValidAtAllowsLeftOnly(tree, i) ==
  /\ isValidNode(At0(tree, i))
  /\ IF rightChild(i) >= Len(tree)
       THEN TRUE
       ELSE HexToBytes32(At0(tree, i)).val =
              HashNode(HexToBytes32(At0(tree, leftChild(i))).val,
                       HexToBytes32(At0(tree, rightChild(i))).val)

\* the body of the loop of IsValidTree for node i; TRUE when it does not
\* return false
ValidAt(tree, i) ==
  /\ isValidNode(At0(tree, i))
  /\ IF rightChild(i) >= Len(tree)
       THEN ~(leftChild(i) < Len(tree))
       ELSE HexToBytes32(At0(tree, i)).val =
              HashNode(HexToBytes32(At0(tree, leftChild(i))).val,
                       HexToBytes32(At0(tree, rightChild(i))).val)

IsValidTree(tree) ==
  /\ Len(tree) # 0
  /\ \A i \in 0..(Len(tree) - 1) : ValidAt(tree, i)

\* ----------------------------------------------------------- sort orders
\* slices.SortFunc(items, by hash): on fewer than 12 items the library sort
\* is an insertion sort, which moves an item left past every item with a
\* strictly greater hash.  An order lists the original positions 1..n of
\* the items in their arranged sequence.
RECURSIVE InsertByHash(_, _, _)
InsertByHash(order, x, hashes) ==
  IF order = <<>> THEN <<x>>
  ELSE IF Compare(hashes[x], hashes[order[Len(order)]]) < 0
    THEN Append(InsertByHash(SubSeq(order, 1, Len(order) - 1), x, hashes),
                order[Len(order)])
  ELSE Append(order, x)

RECURSIVE SortByHash(_, _)
SortByHash(hashes, n) ==
  IF n = 0 THEN <<>> ELSE InsertByHash(SortByHash(hashes, n - 1), n, hashes)

\* mutant: the sort option is ignored
SortOrderKeepsInput(hashes, sortLeaves) == [i \in 1..Len(hashes) |-> i]

SortOrder(hashes, sortLeaves) ==
  IF sortLeaves THEN SortByHash(hashes, Len(hashes))
  ELSE [i \in 1..Len(hashes) |-> i]

\* mutant: the tree index is taken from the input position, not from the
\* position after sorting
PlaceValuesByInput(stored, order, treeLen) ==
  [orig \in 1..Len(order) |->
     [Value |-> stored[orig], TreeIndex |-> treeLen - 1 - (orig - 1)]]

\* variant: the leaves are laid out from the first leaf position upwards
PlaceValuesAscending(stored, order, treeLen) ==
  [orig \in 1..Len(order) |->
     LET k == CHOOSE k \in 1..Len(order) : order[k] = orig
     IN [Value |-> stored[orig], TreeIndex |-> treeLen - Len(order) + (k - 1)]]

\* vals[it.index] = {Value, TreeIndex: len(tree) - 1 - i} for item i (0-based)
PlaceValues(stored, order, treeLen) ==
  [orig \in 1..Len(order) |->
     LET k == CHOOSE k \in 1..Len(order) : order[k] = orig
     IN [Value |-> stored[orig], TreeIndex |-> treeLen - 1 - (k - 1)]]

NoTree == [tree |-> <<>>, values |-> <<>>, leafEncoding |-> <<>>]

\* ----------------------------------------------------- Simple tree facade
SimpleHashes(values) == [i \in 1..Len(values) |-> HashLeaf(values[i])]

NewSimpleMerkleTree(values, sortLeaves) ==
  With(SimpleHashes(values), LAMBDA hashes :
    With(SortOrder(hashes, sortLeaves), LAMBDA order :
      With(MakeTree([k \in 1..Len(order) |-> hashes[order[k]]]), LAMBDA mt :
        IF mt.err # NoErr THEN [t |-> NoTree, err |-> mt.err]
        ELSE [t |-> [tree |-> mt.tree,
                     values |-> PlaceValues([i \in 1..Len(values) |-> Hex(values[i])],
                                            order, Len(mt.tree)),
                     leafEncoding |-> <<>>],
              err |-> NoErr])))

Root(t) == At0(t.tree, 0)
TreeLen(t) == Len(t.values)

\* the loop of SimpleMerkleTree.Validate from value k on
RECURSIVE SimpleValidateFrom(_, _)
SimpleValidateFrom(t, k) ==
  IF k > Len(t.values) THEN NoErr
  ELSE LET v == t.values[k]
           leaf == HexToBytes32(v.Value)
       IN IF leaf.err # NoErr THEN leaf.err
          ELSE IF ~InRange(t.tree, v.TreeIndex) THEN Panic
          ELSE IF At0(t.tree, v.TreeIndex) # Hex(HashLeaf(leaf.val)) THEN "ErrInvariant"
          ELSE SimpleValidateFrom(t, k + 1)

SimpleValidate(t) ==
  LET e == SimpleValidateFrom(t, 1)
  IN IF e # NoErr THEN e
     ELSE IF ~IsValidTree(t.tree) THEN "ErrInvariant"
     ELSE NoErr

\* 0-based position of the first stored value equal to leaf
RECURSIVE SimpleLeafIndexFrom(_, _, _)
SimpleLeafIndexFrom(t, leaf, k) ==
  IF k > Len(t.values) THEN [i |-> -1, err |-> "ErrLeafNotInTree"]
  ELSE IF ~InRange(t.tree, t.values[k].TreeIndex) THEN [i |-> -1, err |-> Panic]
  ELSE IF /\ At0(t.tree, t.values[k].TreeIndex) = Hex(HashLeaf(leaf))
          /\ HexToBytes32(t.values[k].Value).val = leaf
         THEN [i |-> k - 1, err |-> NoErr]
  ELSE SimpleLeafIndexFrom(t, leaf, k + 1)

SimpleLeafIndex(t, leaf) == SimpleLeafIndexFrom(t, leaf, 1)

\* GetProofByIndex is the same code in both facades
GetProofByIndex(t, i) ==
  IF i < 0 \/ i >= Len(t.values) THEN [proof |-> <<>>, err |-> "ErrIndexOutOfBounds"]
  ELSE GetProof(t.tree, At0(t.values, i).TreeIndex)

SimpleGetProof(t, leaf) ==
  LET li == SimpleLeafIndex(t, leaf)
  IN IF li.err # NoErr THEN [proof |-> <<>>, err |-> li.err]
     ELSE GetProofByIndex(t, li.i)

\* root == t.Root() after ProcessProof
VerifyAgainst(root, h, proof) ==
  LET r == ProcessProof(h, proof)
  IN IF r.err # NoErr THEN [ok |-> FALSE, err |-> r.err]
     ELSE [ok |-> r.root = root, err |-> NoErr]

\* variant: any proof that parses is accepted
SimpleVerifyAnyProof(t, leaf, proof) ==
  [ok |-> ProcessProof(HashLeaf(leaf), proof).err = NoErr,
   err |-> ProcessProof(HashLeaf(leaf), proof).err]

SimpleVerify(t, leaf, proof) == VerifyAgainst(Root(t), HashLeaf(leaf), proof)
VerifySimple(root, leaf, proof) == VerifyAgainst(root, HashLeaf(leaf), proof)

\* the tree indices of the values at the given positions
TreeIndices(t, indices) == [k \in 1..Len(indices) |-> At0(t.values, indices[k]).TreeIndex]
IndicesInBounds(t, indices) ==
  \A k \in 1..Len(indices) : indices[k] >= 0 /\ indices[k] < Len(t.values)

SimpleGetMultiProofByIndices(t, indices) ==
  IF ~IndicesInBounds(t, indices) THEN [mp |-> NoMultiProof, err |-> "ErrIndexOutOfBounds"]
  ELSE LET r == GetMultiProof(t.tree, TreeIndices(t, indices))
       IN IF r.err # NoErr THEN r
          ELSE [mp |-> [r.mp EXCEPT !.Leaves =
                          [k \in 1..Len(indices) |-> At0(t.values, indices[k]).Value]],
                err |-> NoErr]

\* the loop resolving the leaves to positions, from leaf k on
RECURSIVE ResolveLeaves(_, _, _, _)
ResolveLeaves(t, leaves, k, acc) ==
  IF k > Len(leaves) THEN [indices |-> acc, err |-> NoErr]
  ELSE LET li == SimpleLeafIndex(t, leaves[k])
       IN IF li.err # NoErr THEN [indices |-> <<>>, err |-> li.err]
          ELSE ResolveLeaves(t, leaves, k + 1, Append(acc, li.i))

SimpleGetMultiProof(t, leaves) ==
  LET r == ResolveLeaves(t, leaves, 1, <<>>)
  IN IF r.err # NoErr THEN [mp |-> NoMultiProof, err |-> r.err]
     ELSE SimpleGetMultiProofByIndices(t, r.indices)

\* hashed[i] = HashLeaf(HexToBytes32(leaf)).Hex(), the first malformed leaf
\* is the error
RECURSIVE RehashLeaves(_, _, _)
RehashLeaves(leaves, k, acc) ==
  IF k > Len(leaves) THEN [hashed |-> acc, err |-> NoErr]
  ELSE LET b == HexToBytes32(leaves[k])
       IN IF b.err # NoErr THEN [hashed |-> <<>>, err |-> b.err]
          ELSE RehashLeaves(leaves, k + 1, Append(acc, Hex(HashLeaf(b.val))))

SimpleVerifyMultiProof(t, mp) ==
  LET h == RehashLeaves(mp.Leaves, 1, <<>>)
      r == ProcessMultiProof([mp EXCEPT !.Leaves = h.hashed])
  IN IF h.err # NoErr THEN [ok |-> FALSE, err |-> h.err]
     ELSE IF r.err # NoErr THEN [ok |-> FALSE, err |-> r.err]
     ELSE [ok |-> r.root = Root(t), err |-> NoErr]

\* mutant: the dump carries the tag of the other facade
SimpleDumpOtherTag(t) == [Format |-> "standard-v1", Tree |-> t.tree,
                          Values |-> t.values, LeafEncoding |-> <<>>]

SimpleDump(t) == [Format |-> "simple-v1", Tree |-> t.tree, Values |-> t.values,
                  LeafEncoding |-> <<>>]

\* mutant: the values and the tree are validated before the tag is read
LoadSimpleValidatesFirst(data) ==
  LET t == [tree |-> data.Tree, values |-> data.Values, leafEncoding |-> <<>>]
  IN IF SimpleValidate(t) # NoErr THEN [t |-> NoTree, err |-> SimpleValidate(t)]
     ELSE IF data.Format # "simple-v1" THEN [t |-> NoTree, err |-> "ErrInvalidFormat"]
     ELSE [t |-> t, err |-> NoErr]

LoadSimpleMerkleTree(data) ==
  LET t == [tree |-> data.Tree, values |-> data.Values, leafEncoding |-> <<>>]
  IN IF data.Format # "simple-v1" THEN [t |-> NoTree, err |-> "ErrInvalidFormat"]
     ELSE IF SimpleValidate(t) # NoErr THEN [t |-> NoTree, err |-> SimpleValidate(t)]
     ELSE [t |-> t, err |-> NoErr]

\* ------------------------------------------------------------ ABI encoder
\* A dynamically typed Go value is a record [k, v]: k = "int" for the integer
\* types (int, int64, uint64, *big.Int; v an integer), "bool" (v 0 or 1),
\* "string" (v a character sequence), "bytes" (v a byte sequence), and
\* "nil" for any type the encoder does not know.
AddrLen == 1
SignChar == 998

RECURSIVE Pow(_, _)
Pow(b, e) == IF e = 0 THEN 1 ELSE b * Pow(b, e - 1)

\* 2^256 at the scaled word width
Modulus == Pow(ByteBase, WordLen)

Abs(n) == IF n < 0 THEN -n ELSE n

\* (*big.Int).Bytes(): big-endian bytes of |n|, empty for 0
RECURSIVE BigBytes(_)
BigBytes(n) ==
  IF Abs(n) = 0 THEN <<>>
  ELSE Append(BigBytes(Abs(n) \div ByteBase), Abs(n) % ByteBase)

Fill(len, x) == [i \in 1..len |-> x]

\* hex.DecodeString of an unprefixed string
HexDecode(t) ==
  IF \E i \in 1..Len(t) : ~IsHexChar(t[i]) THEN [data |-> <<>>, ok |-> FALSE]
  ELSE [data |-> [i \in 1..Len(t) |-> HexCharVal(t[i])], ok |-> TRUE]

\* value of the digit characters t in the given base, -1 if some character
\* is not a digit of that base
RECURSIVE DigitsVal(_, _, _, _)
DigitsVal(t, base, k, acc) ==
  IF k > Len(t) THEN acc
  ELSE IF ~IsHexChar(t[k]) \/ HexCharVal(t[k]) >= base THEN -1
  ELSE DigitsVal(t, base, k + 1, acc * base + HexCharVal(t[k]))

\* (*big.Int).SetString(s, base): an optional sign, then at least one digit
SetString(t, base) ==
  LET neg == Len(t) > 0 /\ t[1] = SignChar
      digits == IF neg THEN Tail(t) ELSE t
  IN With(DigitsVal(digits, base, 1, 0), LAMBDA mag :
       IF Len(digits) = 0 \/ mag < 0 THEN [n |-> 0, ok |-> FALSE]
       ELSE [n |-> IF neg THEN -mag ELSE mag, ok |-> TRUE])

toBigInt(val) ==
  IF val.k = "int" THEN [n |-> val.v, err |-> NoErr]
  ELSE IF val.k = "string"
    THEN LET base == IF Len(val.v) > 0 /\ val.v[1] = PrefixChar THEN 16 ELSE 10
         IN With(SetString(TrimPrefix0x(val.v), base), LAMBDA r :
              IF r.ok THEN [n |-> r.n, err |-> NoErr]
              ELSE [n |-> 0, err |-> "ErrAbiEncode"])
  ELSE [n |-> 0, err |-> "ErrAbiEncode"]

encodeAddress(val) ==
  IF val.k # "string" THEN [bytes |-> <<>>, err |-> "ErrAbiEncode"]
  ELSE With(HexDecode(TrimPrefix0x(val.v)), LAMBDA d :
         IF ~d.ok \/ Len(d.data) # AddrLen THEN [bytes |-> <<>>, err |-> "ErrAbiEncode"]
         ELSE [bytes |-> Fill(WordLen - AddrLen, 0) \o d.data, err |-> NoErr])

encodeBytes32(val) ==
  IF val.k = "string"
    THEN With(HexToBytes32(val.v), LAMBDA h : [bytes |-> h.val, err |-> h.err])
  ELSE IF val.k = "bytes"
    THEN IF ~HasLen32(val.v) THEN [bytes |-> <<>>, err |-> "ErrInvalidNodeLength"]
         ELSE [bytes |-> val.v, err |-> NoErr]
  ELSE [bytes |-> <<>>, err |-> "ErrAbiEncode"]

encodeUint(val) ==
  With(toBigInt(val), LAMBDA r :
    IF r.err # NoErr THEN [bytes |-> <<>>, err |-> r.err]
    ELSE IF r.n < 0 THEN [bytes |-> <<>>, err |-> "ErrAbiEncode"]
    ELSE With(BigBytes(r.n), LAMBDA b :
      IF Len(b) > WordLen THEN [bytes |-> <<>>, err |-> "ErrAbiEncode"]
      ELSE [bytes |-> Fill(WordLen - Len(b), 0) \o b, err |-> NoErr]))

\* copy(out[32-len(b):], b) panics when len(b) > 32
encodeInt(val) ==
  With(toBigInt(val), LAMBDA r :
    IF r.err # NoErr THEN [bytes |-> <<>>, err |-> r.err]
    ELSE With(IF r.n >= 0 THEN BigBytes(r.n) ELSE BigBytes(r.n + Modulus), LAMBDA b :
      LET pad == IF r.n >= 0 THEN 0 ELSE ByteBase - 1
      IN IF Len(b) > WordLen
           THEN [bytes |-> <<>>, err |-> "panic: slice bounds out of range"]
         ELSE [bytes |-> Fill(WordLen - Len(b), pad) \o b, err |-> NoErr]))

encodeBytes(val) ==
  IF val.k = "string"
    THEN With(HexDecode(TrimPrefix0x(val.v)), LAMBDA d :
           IF ~d.ok THEN [bytes |-> <<>>, err |-> "ErrAbiEncode"]
           ELSE [bytes |-> Keccak256(d.data), err |-> NoErr])
  ELSE IF val.k = "bytes" THEN [bytes |-> Keccak256(val.v), err |-> NoErr]
  ELSE [bytes |-> <<>>, err |-> "ErrAbiEncode"]

\* strings.HasPrefix(typ, "uint") and strings.HasPrefix(typ, "int") over the
\* type tags of the model
HasPrefixUint(typ) == typ \in {"uint", "uint8", "uint256"}
HasPrefixInt(typ) == typ \in {"int", "int8", "int256", "integer"}

encodeValue(typ, val) ==
  IF typ = "address" THEN encodeAddress(val)
  ELSE IF typ = "bytes32" THEN encodeBytes32(val)
  ELSE IF HasPrefixUint(typ) THEN encodeUint(val)
  ELSE IF HasPrefixInt(typ) THEN encodeInt(val)
  ELSE IF typ = "bool"
    THEN IF val.k = "bool"
           THEN [bytes |-> Fill(WordLen - 1, 0) \o <<IF val.v = 1 THEN 1 ELSE 0>>,
                 err |-> NoErr]
           ELSE [bytes |-> <<>>, err |-> "ErrAbiEncode"]
  ELSE IF typ = "string"
    THEN IF val.k = "string" THEN [bytes |-> Keccak256(val.v), err |-> NoErr]
         ELSE [bytes |-> <<>>, err |-> "ErrAbiEncode"]
  ELSE IF typ = "bytes" THEN encodeBytes(val)
  ELSE [bytes |-> <<>>, err |-> "ErrUnsupportedType"]

\* the loop of encodeAndHash from field k on
RECURSIVE EncodeFields(_, _, _, _)
EncodeFields(types, values, k, buf) ==
  IF k > Len(types) THEN [bytes |-> buf, err |-> NoErr]
  ELSE With(encodeValue(types[k], values[k]), LAMBDA b :
         IF b.err # NoErr THEN [bytes |-> <<>>, err |-> b.err]
         ELSE EncodeFields(types, values, k + 1, buf \o b.bytes))

encodeAndHash(types, values) ==
  IF Len(types) # Len(values) THEN [hash |-> ZeroBytes32, err |-> "ErrMismatchedCount"]
  ELSE With(EncodeFields(types, values, 1, <<>>), LAMBDA e :
         IF e.err # NoErr THEN [hash |-> ZeroBytes32, err |-> e.err]
         ELSE [hash |-> HashLeaf(e.bytes), err |-> NoErr])

\* --------------------------------------------------- Standard tree facade
\* the first error of encodeAndHash over the records, NoErr if none
RECURSIVE FirstEncodeErr(_, _, _)
FirstEncodeErr(leafEncoding, values, k) ==
  IF k > Len(values) THEN NoErr
  ELSE With(encodeAndHash(leafEncoding, values[k]), LAMBDA h :
         IF h.err # NoErr THEN h.err
         ELSE FirstEncodeErr(leafEncoding, values, k + 1))

StandardHashes(values, leafEncoding) ==
  [i \in 1..Len(values) |-> encodeAndHash(leafEncoding, values[i]).hash]

NewStandardMerkleTree(values, leafEncoding, sortLeaves) ==
  With(FirstEncodeErr(leafEncoding, values, 1), LAMBDA e :
    IF e # NoErr THEN [t |-> NoTree, err |-> e]
    ELSE With(StandardHashes(values, leafEncoding), LAMBDA hashes :
      With(SortOrder(hashes, sortLeaves), LAMBDA order :
        With(MakeTree([k \in 1..Len(order) |-> hashes[order[k]]]), LAMBDA mt :
          IF mt.err # NoErr THEN [t |-> NoTree, err |-> mt.err]
          ELSE [t |-> [tree |-> mt.tree,
                       values |-> PlaceValues(values, order, Len(mt.tree)),
                       leafEncoding |-> leafEncoding],
                err |-> NoErr]))))

RECURSIVE StandardValidateFrom(_, _)
StandardValidateFrom(t, k) ==
  IF k > Len(t.values) THEN NoErr
  ELSE LET v == t.values[k]
       IN With(encodeAndHash(t.leafEncoding, v.Value), LAMBDA h :
            IF h.err # NoErr THEN h.err
            ELSE IF ~InRange(t.tree, v.TreeIndex) THEN Panic
            ELSE IF At0(t.tree, v.TreeIndex) # Hex(h.hash) THEN "ErrInvariant"
            ELSE StandardValidateFrom(t, k + 1))

StandardValidate(t) ==
  LET e == StandardValidateFrom(t, 1)
  IN IF e # NoErr THEN e
     ELSE IF ~IsValidTree(t.tree) THEN "ErrInvariant"
     ELSE NoErr

RECURSIVE StandardLeafIndexFrom(_, _, _)
StandardLeafIndexFrom(t, h, k) ==
  IF k > Len(t.values) THEN [i |-> -1, err |-> "ErrLeafNotInTree"]
  ELSE IF ~InRange(t.tree, t.values[k].TreeIndex) THEN [i |-> -1, err |-> Panic]
  ELSE IF At0(t.tree, t.values[k].TreeIndex) = Hex(h) THEN [i |-> k - 1, err |-> NoErr]
  ELSE StandardLeafIndexFrom(t, h, k + 1)

StandardLeafIndex(t, leaf) ==
  With(encodeAndHash(t.leafEncoding, leaf), LAMBDA h :
    IF h.err # NoErr THEN [i |-> -1, err |-> h.err]
    ELSE StandardLeafIndexFrom(t, h.hash, 1))

StandardGetProof(t, leaf) ==
  LET li == StandardLeafIndex(t, leaf)
  IN IF li.err # NoErr THEN [proof |-> <<>>, err |-> li.err]
     ELSE GetProofByIndex(t, li.i)

VerifyStandard(root, leafEncoding, leaf, proof) ==
  LET h == encodeAndHash(leafEncoding, leaf)
  IN IF h.err # NoErr THEN [ok |-> FALSE, err |-> h.err]
     ELSE VerifyAgainst(root, h.hash, proof)

StandardVerify(t, leaf, proof) ==
  LET h == encodeAndHash(t.leafEncoding, leaf)
  IN IF h.err # NoErr THEN [ok |-> FALSE, err |-> h.err]
     ELSE VerifyAgainst(Root(t), h.hash, proof)

StandardGetMultiProofByIndices(t, indices) ==
  IF ~IndicesInBounds(t, indices) THEN [mp |-> NoMultiProof, err |-> "ErrIndexOutOfBounds"]
  ELSE GetMultiProof(t.tree, TreeIndices(t, indices))

StandardVerifyMultiProof(t, mp) ==
  LET r == ProcessMultiProof(mp)
  IN IF r.err # NoErr THEN [ok |-> FALSE, err |-> r.err]
     ELSE [ok |-> r.root = Root(t), err |-> NoErr]

StandardDump(t) == [Format |-> "standard-v1", Tree |-> t.tree, Values |-> t.values,
                    LeafEncoding |-> t.leafEncoding]

LoadStandardMerkleTree(data) ==
  LET t == [tree |-> data.Tree, values |-> data.Values, leafEncoding |-> data.LeafEncoding]
  IN IF data.Format # "standard-v1" THEN [t |-> NoTree, err |-> "ErrInvalidFormat"]
     ELSE IF StandardValidate(t) # NoErr THEN [t |-> NoTree, err |-> StandardValidate(t)]
     ELSE [t |-> t, err |-> NoErr]

\* ================================================================ state
\* kind: which object the caller holds ("none" before construction, "failed"
\*       when construction returned an error, else "core", "simple",
\*       "standard")
\* t:    the object: the tree array, the stored values, the leaf encoding
\* src:  the arguments the object was constructed from
\* call: the last library call and its arguments
\* res:  what that call returned
VARIABLES kind, t, src, call, res

vars == <<kind, t, src, call, res>>

\* ---------------------------------------------------------------- inputs
MaxBadIdx == 2
MaxProofLen == 2
MaxArrayLen == 4

SeqsUpTo(S, m) == UNION {[1..k -> S] : k \in 0..m}
IsDistinct(s) == \A i, j \in 1..Len(s) : i # j => s[i] # s[j]
DistinctSeqs(S) == {s \in SeqsUpTo(S, Cardinality(S)) : IsDistinct(s)}

\* the raw word that is the big-endian form of k
WordOf(k) == Fill(WordLen - Len(BigBytes(k)), 0) \o BigBytes(k)

\* the 32-byte input values: raw words and digests alternate
InputVal(k) == IF k % 2 = 0 THEN WordOf(k) ELSE Keccak256(WordOf(k))
InputVals == {InputVal(k) : k \in 0..(NumVals - 1)}

\* the leaves handed to MakeTree directly
LeafVals == {InputVal(k) : k \in 0..(NumLeafVals - 1)}

LeafPositions(tree) == {i \in 0..(Len(tree) - 1) : isLeafNode(Len(tree), i)}

\* the indices at the edges of the array: just outside it on either side,
\* the root, the first leaf and the last leaf
EdgeIndices(tree) == {-1, 0, Len(tree) \div 2, Len(tree) - 1, Len(tree)}

\* index lists for a multi-proof: every list of distinct leaf positions in
\* every order, and every short list over the edge indices
IndexLists(tree) ==
  DistinctSeqs(LeafPositions(tree)) \cup SeqsUpTo(EdgeIndices(tree), MaxBadIdx)

Init ==
  /\ kind = "none"
  /\ t = NoTree
  /\ src = [sortLeaves |-> FALSE]
  /\ call = [op |-> "init"]
  /\ res = [err |-> NoErr]

\* a query is made on a freshly constructed or loaded object
Fresh == call.op \in {"MakeTree", "New", "Load"}

\* ----------------------------------------------------------- core actions
DoMakeTree ==
  /\ kind = "none"
  /\ \E leaves \in SeqsUpTo(LeafVals, MaxLeaves) :
       LET r == MakeTree(leaves)
       IN /\ kind' = IF r.err = NoErr THEN "core" ELSE "failed"
          /\ t' = [NoTree EXCEPT !.tree = r.tree]
          /\ src' = [sortLeaves |-> FALSE, leaves |-> leaves]
          /\ call' = [op |-> "MakeTree"]
          /\ res' = r

DoGetProof ==
  /\ kind = "core" /\ Fresh
  /\ \E index \in -1..Len(t.tree) :
       /\ call' = [op |-> "GetProof", index |-> index]
       /\ res' = GetProof(t.tree, index)
  /\ UNCHANGED <<kind, t, src>>

\* text that is not hexadecimal, and the hexadecimal text of a single byte
NoHex == <<PrefixChar, SignChar>>
ShortHex == <<PrefixChar, LowerBase + 1>>

\* the proof with one malformed entry put in at any place
DoProcessProofMalformed ==
  /\ kind = "core" /\ call.op = "GetProof" /\ res.err = NoErr
  /\ \E p \in 0..Len(res.proof), bad \in {NoHex, ShortHex} :
       LET leaf == HexToBytes32(At0(t.tree, call.index)).val
           proof == SubSeq(res.proof, 1, p) \o <<bad>>
                      \o SubSeq(res.proof, p + 1, Len(res.proof))
       IN /\ call' = [op |-> "ProcessProofMalformed", leaf |-> leaf,
                      proof |-> proof, bad |-> bad]
          /\ res' = ProcessProof(leaf, proof)
  /\ UNCHANGED <<kind, t, src>>

\* the caller folds the proof it was given from the leaf it asked about
DoProcessProof ==
  /\ kind = "core" /\ call.op = "GetProof" /\ res.err = NoErr
  /\ LET leaf == HexToBytes32(At0(t.tree, call.index)).val
     IN /\ call' = [op |-> "ProcessProof", index |-> call.index,
                    leaf |-> leaf, proof |-> res.proof]
        /\ res' = ProcessProof(leaf, res.proof)
  /\ UNCHANGED <<kind, t, src>>

DoGetMultiProof ==
  /\ kind = "core" /\ Fresh
  /\ \E indices \in IndexLists(t.tree) :
       /\ call' = [op |-> "GetMultiProof", indices |-> indices]
       /\ res' = GetMultiProof(t.tree, indices)
  /\ UNCHANGED <<kind, t, src>>

DoProcessMultiProof ==
  /\ kind = "core" /\ call.op = "GetMultiProof" /\ res.err = NoErr
  /\ call' = [op |-> "ProcessMultiProof", indices |-> call.indices, mp |-> res.mp]
  /\ res' = ProcessMultiProof(res.mp)
  /\ UNCHANGED <<kind, t, src>>

\* a MultiProof of any shape, its entries well-formed nodes
DoProcessAnyMultiProof ==
  /\ kind = "none"
  /\ LET nodes == {Hex(ZeroBytes32), Hex(HashLeaf(ZeroBytes32))}
     IN \E leaves \in SeqsUpTo(nodes, MaxProofLen),
           proof \in SeqsUpTo(nodes, MaxProofLen),
           flags \in SeqsUpTo(BOOLEAN, MaxProofLen + 1) :
          LET mp == [Leaves |-> leaves, Proof |-> proof, ProofFlags |-> flags]
          IN /\ call' = [op |-> "ProcessAnyMultiProof", mp |-> mp]
             /\ res' = ProcessMultiProof(mp)
  /\ kind' = "core"
  /\ UNCHANGED <<t, src>>

Next ==
  \/ DoMakeTree
  \/ DoGetProof
  \/ DoProcessProof
  \/ DoProcessProofMalformed
  \/ DoProcessAnyMultiProof
  \/ DoGetMultiProof
  \/ DoProcessMultiProof

Spec == Init /\ [][Next]_vars

\* ========================================================= facade actions
\* ---------------------------------------------------------------- inputs
MaxValues == 3

AddrStr(b) == <<PrefixChar, LowerBase + b>>
DecStr(m) == <<LowerBase + m>>

\* the schema of the Standard trees and its k-th input record; records 2m
\* and 2m+1 spell the same amount as an integer and as a decimal string
Schema == <<"address", "uint256">>
InputRecord(k) ==
  << [k |-> "string", v |-> AddrStr((k \div 2) % ByteBase)],
     IF k % 2 = 0 THEN [k |-> "int", v |-> k \div 2]
                  ELSE [k |-> "string", v |-> DecStr(k \div 2)] >>

InputRecords == {InputRecord(k) : k \in 0..(NumVals - 1)}

IsFacade == kind \in {"simple", "standard"}

\* the values a caller may ask about: the inputs and one more
AskValues ==
  IF kind = "simple" THEN InputVals \cup {InputVal(NumVals)}
  ELSE InputRecords \cup {InputRecord(NumVals)}

\* the stored value at position i in the form Verify takes it
StoredLeaf(i) ==
  IF kind = "simple" THEN HexToBytes32(At0(t.values, i).Value).val
  ELSE At0(t.values, i).Value

\* lists of value positions: every list of distinct positions in every
\* order, and every single position around the range
ValueLists(n) == DistinctSeqs(0..(n - 1)) \cup SeqsUpTo(-1..n, 1)

NewFacade(k, values, sortLeaves) ==
  IF k = "simple" THEN NewSimpleMerkleTree(values, sortLeaves)
  ELSE NewStandardMerkleTree(values, Schema, sortLeaves)

DoNewSimple ==
  /\ kind = "none"
  /\ \E values \in SeqsUpTo(InputVals, MaxValues), sortLeaves \in BOOLEAN :
       LET r == NewSimpleMerkleTree(values, sortLeaves)
       IN /\ kind' = IF r.err = NoErr THEN "simple" ELSE "failed"
          /\ t' = r.t
          /\ src' = [sortLeaves |-> sortLeaves, values |-> values]
          /\ call' = [op |-> "New"]
          /\ res' = [err |-> r.err]

DoNewStandard ==
  /\ kind = "none"
  /\ \E values \in SeqsUpTo(InputRecords, MaxValues), sortLeaves \in BOOLEAN :
       LET r == NewStandardMerkleTree(values, Schema, sortLeaves)
       IN /\ kind' = IF r.err = NoErr THEN "standard" ELSE "failed"
          /\ t' = r.t
          /\ src' = [sortLeaves |-> sortLeaves, values |-> values]
          /\ call' = [op |-> "New"]
          /\ res' = [err |-> r.err]

\* the same inputs in another order, with the same options
DoNewPermuted ==
  /\ IsFacade /\ call.op = "New"
  /\ \E perm \in Permutations(1..Len(src.values)) :
       LET values == [i \in 1..Len(src.values) |-> src.values[perm[i]]]
           r == NewFacade(kind, values, src.sortLeaves)
       IN /\ t' = r.t
          /\ src' = [src EXCEPT !.values = values]
          /\ call' = [op |-> "NewPermuted", perm |-> perm,
                      prevRoot |-> Root(t), prevValues |-> src.values]
          /\ res' = [err |-> r.err]
  /\ UNCHANGED kind

DoFacadeGetProof ==
  /\ IsFacade /\ Fresh
  /\ \E leaf \in AskValues :
       /\ call' = [op |-> "GetProof", leaf |-> leaf]
       /\ res' = IF kind = "simple" THEN SimpleGetProof(t, leaf)
                 ELSE StandardGetProof(t, leaf)
  /\ UNCHANGED <<kind, t, src>>

DoFacadeGetProofByIndex ==
  /\ IsFacade /\ Fresh
  /\ \E i \in -1..Len(t.values) :
       /\ call' = [op |-> "GetProofByIndex", i |-> i,
                   leaf |-> IF InRange(t.values, i) THEN StoredLeaf(i) ELSE <<>>]
       /\ res' = GetProofByIndex(t, i)
  /\ UNCHANGED <<kind, t, src>>

GotProof == call.op \in {"GetProof", "GetProofByIndex"} /\ res.err = NoErr

DoVerify ==
  /\ IsFacade /\ GotProof
  /\ call' = [op |-> "Verify", leaf |-> call.leaf, proof |-> res.proof]
  /\ res' = IF kind = "simple" THEN SimpleVerify(t, call.leaf, res.proof)
            ELSE StandardVerify(t, call.leaf, res.proof)
  /\ UNCHANGED <<kind, t, src>>

\* the hash of the leaf preimage of an input value
InputLeafHash(k, v) ==
  IF k = "simple" THEN HashLeaf(v) ELSE encodeAndHash(Schema, v).hash

\* one entry of the proof is replaced by another 32-byte value
DoVerifyTampered ==
  /\ IsFacade /\ GotProof
  /\ \E p \in 1..Len(res.proof),
        x \in {Hex(ZeroBytes32), Hex(HashLeaf(ZeroBytes32)), Root(t)} :
       /\ HexToBytes32(x).val # HexToBytes32(res.proof[p]).val
       /\ LET proof == [res.proof EXCEPT ![p] = x]
          IN /\ call' = [op |-> "VerifyTampered", leaf |-> call.leaf,
                         proof |-> proof, genuine |-> res.proof]
             /\ res' = IF kind = "simple" THEN SimpleVerify(t, call.leaf, proof)
                       ELSE StandardVerify(t, call.leaf, proof)
  /\ UNCHANGED <<kind, t, src>>

\* the proof is verified on the tree built, with the same options, from the
\* values that are not leaves of this tree
DoVerifyForeign ==
  /\ IsFacade /\ GotProof
  /\ LET mine == {InputLeafHash(kind, src.values[i]) : i \in 1..Len(src.values)}
         all == [i \in 1..(NumVals + 1) |->
                   IF kind = "simple" THEN InputVal(i - 1) ELSE InputRecord(i - 1)]
         others == SelectSeq(all, LAMBDA v : InputLeafHash(kind, v) \notin mine)
         o == NewFacade(kind, others, src.sortLeaves)
     IN /\ others # <<>> /\ o.err = NoErr
        /\ call' = [op |-> "VerifyForeign", leaf |-> call.leaf, proof |-> res.proof,
                    other |-> o.t]
        /\ res' = IF kind = "simple" THEN SimpleVerify(o.t, call.leaf, res.proof)
                  ELSE StandardVerify(o.t, call.leaf, res.proof)
  /\ UNCHANGED <<kind, t, src>>

\* VerifySimple / VerifyStandard with the root the tree reports
DoVerifyStatic ==
  /\ IsFacade /\ GotProof
  /\ call' = [op |-> "VerifyStatic", leaf |-> call.leaf, proof |-> res.proof]
  /\ res' = IF kind = "simple" THEN VerifySimple(Root(t), call.leaf, res.proof)
            ELSE VerifyStandard(Root(t), t.leafEncoding, call.leaf, res.proof)
  /\ UNCHANGED <<kind, t, src>>

DoGetMultiProofByIndices ==
  /\ IsFacade /\ Fresh
  /\ \E indices \in ValueLists(Len(t.values)) :
       /\ call' = [op |-> "GetMultiProofByIndices", indices |-> indices]
       /\ res' = IF kind = "simple" THEN SimpleGetMultiProofByIndices(t, indices)
                 ELSE StandardGetMultiProofByIndices(t, indices)
  /\ UNCHANGED <<kind, t, src>>

\* SimpleMerkleTree.GetMultiProof, by values
DoSimpleGetMultiProof ==
  /\ kind = "simple" /\ Fresh
  /\ \E leaves \in DistinctSeqs(InputVals) \cup SeqsUpTo(AskValues, MaxBadIdx)
                    \cup UNION {{<<a, a, b>>, <<a, b, a>>, <<b, a, a>>} :
                                  a \in InputVals, b \in InputVals} :
       /\ call' = [op |-> "GetMultiProof", leaves |-> leaves]
       /\ res' = SimpleGetMultiProof(t, leaves)
  /\ UNCHANGED <<kind, t, src>>

DoVerifyMultiProof ==
  /\ IsFacade /\ call.op \in {"GetMultiProofByIndices", "GetMultiProof"}
  /\ res.err = NoErr
  /\ call' = [op |-> "VerifyMultiProof", via |-> call, mp |-> res.mp]
  /\ res' = IF kind = "simple" THEN SimpleVerifyMultiProof(t, res.mp)
            ELSE StandardVerifyMultiProof(t, res.mp)
  /\ UNCHANGED <<kind, t, src>>

DoDump ==
  /\ IsFacade /\ Fresh
  /\ call' = [op |-> "Dump"]
  /\ res' = [data |-> IF kind = "simple" THEN SimpleDump(t) ELSE StandardDump(t),
             err |-> NoErr]
  /\ UNCHANGED <<kind, t, src>>

\* the dumped data is loaded by the facade that dumped it
DoLoad ==
  /\ IsFacade /\ call.op = "Dump"
  /\ LET r == IF kind = "simple" THEN LoadSimpleMerkleTree(res.data)
              ELSE LoadStandardMerkleTree(res.data)
     IN /\ call' = [op |-> "LoadDumped", data |-> res.data, from |-> t]
        /\ res' = [err |-> r.err]
        /\ t' = r.t
  /\ UNCHANGED <<kind, src>>

NextFacade ==
  \/ DoNewSimple
  \/ DoNewStandard
  \/ DoNewPermuted
  \/ DoFacadeGetProof
  \/ DoFacadeGetProofByIndex
  \/ DoVerify
  \/ DoVerifyStatic
  \/ DoVerifyTampered
  \/ DoVerifyForeign
  \/ DoGetMultiProofByIndices
  \/ DoSimpleGetMultiProof
  \/ DoVerifyMultiProof
  \/ DoDump
  \/ DoLoad

SpecFacade == Init /\ [][NextFacade]_vars

\* ============================================================ load actions
\* A caller hands Load a data object of its own making: the dump of a tree
\* with its format tag set and at most one of its fields altered.
Tags == {"simple-v1", "standard-v1", "bad"}

\* a well-formed node value that is in no tree, and a string that is no hex
ForeignNode == Hex(HashLeaf(InputVal(NumVals)))

\* the data objects that differ from data in at most one field: the tree
\* emptied, cut by one entry or with one entry replaced or spelled without
\* the prefix or in upper case; one value given
\* another tree index or another content, the values repeated or removed;
\* the schema cut
AlteredData(data) ==
  LET tree == data.Tree
      values == data.Values
      forms == IF kind = "simple" THEN {Hex(v) : v \in AskValues} \cup {NoHex}
               ELSE AskValues
      trees ==
        {<<>>, SubSeq(tree, 1, Len(tree) - 1)}
          \cup {[tree EXCEPT ![i] = x] :
                  i \in {1, Len(tree)}, x \in {ForeignNode, NoHex}}
          \cup {[tree EXCEPT ![i] = Tail(tree[i])] : i \in {1, Len(tree)}}
          \cup {[tree EXCEPT ![i] = [c \in 1..Len(tree[i]) |->
                                      IF tree[i][c] >= LowerBase + 10 /\ tree[i][c] < UpperBase
                                        THEN tree[i][c] - LowerBase + UpperBase
                                        ELSE tree[i][c]]] : i \in {1, Len(tree)}}
      valueLists ==
        {<<>>}
          \cup {[values EXCEPT ![k].TreeIndex = j] :
                  k \in 1..Len(values), j \in -1..Len(tree)}
          \cup {[values EXCEPT ![k].Value = v] : k \in 1..Len(values), v \in forms}
          \cup {Append(values, values[k]) : k \in 1..Len(values)}
  IN {data}
       \cup {[data EXCEPT !.Tree = x] : x \in trees}
       \cup {[data EXCEPT !.Values = x] : x \in valueLists}
       \cup IF kind = "standard"
              THEN {[data EXCEPT !.LeafEncoding = SubSeq(Schema, 1, 1)]}
              ELSE {}

DoAlter ==
  /\ IsFacade /\ call.op = "Dump"
  /\ \E tag \in Tags, data \in AlteredData(res.data) :
       /\ call' = [op |-> "Alter", dumped |-> res.data]
       /\ res' = [data |-> [data EXCEPT !.Format = tag], err |-> NoErr]
  /\ UNCHANGED <<kind, t, src>>

\* LoadSimpleMerkleTree / LoadStandardMerkleTree on the caller's data
DoLoadData ==
  /\ IsFacade /\ call.op = "Alter"
  /\ LET r == IF kind = "simple" THEN LoadSimpleMerkleTree(res.data)
              ELSE LoadStandardMerkleTree(res.data)
     IN /\ call' = [op |-> "LoadData", data |-> res.data, dumped |-> call.dumped]
        /\ res' = [err |-> r.err]
        /\ t' = r.t
  /\ UNCHANGED <<kind, src>>

\* a stored value of the loaded tree is verified with the proof the tree
\* gives for it
DoVerifyLoaded ==
  /\ IsFacade /\ call.op = "LoadData" /\ res.err = NoErr
  /\ \E i \in 0..(Len(t.values) - 1) :
       LET p == GetProofByIndex(t, i)
       IN /\ call' = [op |-> "VerifyLoaded", i |-> i, data |-> call.data, proof |-> p]
          /\ res' = IF p.err # NoErr THEN [ok |-> FALSE, err |-> p.err]
                    ELSE IF kind = "simple" THEN SimpleVerify(t, StoredLeaf(i), p.proof)
                    ELSE StandardVerify(t, StoredLeaf(i), p.proof)
  /\ UNCHANGED <<kind, t, src>>

NextLoad ==
  \/ DoNewSimple
  \/ DoNewStandard
  \/ DoDump
  \/ DoAlter
  \/ DoLoadData
  \/ DoVerifyLoaded

SpecLoad == Init /\ [][NextLoad]_vars

\* ================================================== writes by the caller
\* The slices of the object the caller holds after a call that are the
\* tree's own slices, because the code assigned them without a copy:
\*   Dump       Tree: t.tree, Values: t.values, LeafEncoding: t.leafEncoding
\*   Load       tree: data.Tree, values: data.Values, leafEncoding: ...
\*   New        Simple: the Bytes32 inputs are copied and stored as strings;
\*              Standard: leafEncoding: leafEncoding, and Value: it.value,
\*              the caller's record for the value at its input position
SharedSlices(op, k) ==
  IF op \in {"Dump", "LoadDumped"}
    THEN IF k = "simple" THEN {"Tree", "Values"}
         ELSE {"Tree", "Values", "LeafEncoding"}
  ELSE IF k = "simple" THEN {}
  ELSE {"LeafEncoding", "Records"}

\* the element assignments open to the caller: slice[i] = x, and
\* records[i][f] = x for a record handed to NewStandardMerkleTree
CallerWrites(op, k) ==
  LET other == IF k = "simple" THEN Hex(InputVal(NumVals)) ELSE InputRecord(NumVals)
  IN IF op \in {"Dump", "LoadDumped"}
       THEN [slice : {"Tree"}, i : 1..Len(t.tree), f : {0}, x : {ForeignNode}]
              \cup [slice : {"Values"}, i : 1..Len(t.values), f : {0},
                    x : {[Value |-> other, TreeIndex |-> 0]}]
              \cup [slice : {"LeafEncoding"}, i : 1..Len(t.leafEncoding), f : {0},
                    x : {"bytes32"}]
     ELSE IF k = "simple"
       THEN [slice : {"Inputs"}, i : 1..Len(src.values), f : {0},
             x : {InputVal(NumVals)}]
     ELSE [slice : {"LeafEncoding"}, i : 1..Len(t.leafEncoding), f : {0},
           x : {"bytes32"}]
            \cup [slice : {"Records"}, i : 1..Len(src.values), f : {2},
                  x : {InputRecord(NumVals)[2]}]

\* the tree object after an assignment through a slice it shares
WrittenThrough(w) ==
  IF w.slice = "Tree" THEN [t EXCEPT !.tree[w.i] = w.x]
  ELSE IF w.slice = "Values" THEN [t EXCEPT !.values[w.i] = w.x]
  ELSE IF w.slice = "LeafEncoding" THEN [t EXCEPT !.leafEncoding[w.i] = w.x]
  ELSE [t EXCEPT !.values[w.i].Value[w.f] = w.x]

DoCallerWrite ==
  /\ IsFacade /\ call.op \in {"New", "Dump", "LoadDumped"} /\ res.err = NoErr
  /\ \E w \in CallerWrites(call.op, kind) :
       /\ call' = [op |-> "Write", after |-> call.op, w |-> w, before |-> t]
       /\ t' = IF w.slice \in SharedSlices(call.op, kind) THEN WrittenThrough(w)
               ELSE t
  /\ res' = [err |-> NoErr]
  /\ UNCHANGED <<kind, src>>

NextAlias ==
  \/ DoNewSimple
  \/ DoNewStandard
  \/ DoDump
  \/ DoLoad
  \/ DoCallerWrite

SpecAlias == Init /\ [][NextAlias]_vars

\* ================================================ several readers, one tree
Readers == {1, 2}

\* what a reader may ask of a tree of n values: the root, a proof for the
\* first or the last value, and a multi-proof for both of them in either
\* order, from the facade or from the core function
ReaderRequests(n) ==
  [op : {"Root"}, arg : {<<>>}]
    \cup [op : {"GetProofByIndex"}, arg : {<<0>>, <<n - 1>>}]
    \cup [op : {"GetMultiProofByIndices", "GetMultiProof"},
          arg : {<<0, n - 1>>, <<n - 1, 0>>}]

\* the operation of a request, run on the tree object tr
Read(tr, rq) ==
  IF rq.op = "Root" THEN [err |-> NoErr, root |-> Root(tr)]
  ELSE IF rq.op = "GetProofByIndex" THEN GetProofByIndex(tr, rq.arg[1])
  ELSE IF rq.op = "GetMultiProofByIndices"
    THEN IF kind = "simple" THEN SimpleGetMultiProofByIndices(tr, rq.arg)
         ELSE StandardGetMultiProofByIndices(tr, rq.arg)
  ELSE GetMultiProof(tr.tree,
         [k \in 1..Len(rq.arg) |-> At0(tr.values, rq.arg[k]).TreeIndex])

\* variant: GetMultiProof sorts the caller's list itself
MemoryAfterSortInPlace(tr, rq) ==
  [t |-> tr,
   arg |-> IF rq.op \in {"GetMultiProofByIndices", "GetMultiProof"}
             THEN SortDesc(rq.arg) ELSE rq.arg]

\* what an operation leaves in memory: no operation assigns an element of
\* t.tree or t.values, and GetMultiProof sorts slices.Clone(indices), never
\* the caller's list
MemoryAfter(tr, rq) == [t |-> tr, arg |-> rq.arg]

DoOpenReaders ==
  /\ IsFacade /\ call.op = "New" /\ Len(t.values) >= 1
  /\ call' = [op |-> "Readers", tree0 |-> t,
              rd |-> [r \in Readers |-> [pc |-> "idle"]]]
  /\ res' = [err |-> NoErr, out |-> [r \in Readers |-> [err |-> "none"]]]
  /\ UNCHANGED <<kind, t, src>>

\* a reader enters an operation: its arguments are in memory
DoReaderStart ==
  /\ IsFacade /\ call.op = "Readers"
  /\ \E r \in Readers, rq \in ReaderRequests(Len(t.values)) :
       /\ call.rd[r].pc = "idle"
       /\ call' = [call EXCEPT !.rd[r] =
                     [pc |-> "running", op |-> rq.op, arg |-> rq.arg,
                      arg0 |-> rq.arg, overlapped |-> FALSE]]
  /\ UNCHANGED <<kind, t, src, res>>

\* a reader's operation runs on the memory as it is now and returns
DoReaderFinish ==
  /\ IsFacade /\ call.op = "Readers"
  /\ \E r \in Readers :
       /\ call.rd[r].pc = "running"
       /\ LET rq == [op |-> call.rd[r].op, arg |-> call.rd[r].arg]
              mem == MemoryAfter(t, rq)
          IN /\ res' = [res EXCEPT !.out[r] = Read(t, rq)]
             /\ t' = mem.t
             /\ call' = [call EXCEPT
                  ![ "rd" ][r].pc = "done",
                  ![ "rd" ][r].arg = mem.arg,
                  ![ "rd" ][r].overlapped =
                     \E o \in Readers \ {r} : call.rd[o].pc # "idle"]
  /\ UNCHANGED <<kind, src>>

NextReaders ==
  \/ DoNewSimple
  \/ DoNewStandard
  \/ DoOpenReaders
  \/ DoReaderStart
  \/ DoReaderFinish

SpecReaders == Init /\ [][NextReaders]_vars

\* ================================================== functions of values
\* the 32-byte values: every raw word and the digest of every raw word
NodeValues ==
  LET words == [1..WordLen -> 0..(ByteBase - 1)]
  IN words \cup {Keccak256(w) : w \in words}

\* the arrays a and b after ConcatSorted: a[:] and b[:] are slices whose
\* length is their capacity, so append copies into a new array
ConcatSortedArgs(a, b) == <<a, b>>

DoHashNode ==
  /\ kind = "none"
  /\ \E a \in NodeValues, b \in NodeValues :
       /\ call' = [op |-> "HashNode", a |-> a, b |-> b]
       /\ res' = [err |-> NoErr, ab |-> HashNode(a, b), ba |-> HashNode(b, a),
                  args |-> ConcatSortedArgs(a, b)]
  /\ kind' = "pure"
  /\ UNCHANGED <<t, src>>

\* the strings a caller may put in an array: the node of the zero word,
\* the node of its leaf hash, the node of the pair of zero words, and text
\* that is not hexadecimal
NodeStrings ==
  {Hex(ZeroBytes32), Hex(HashLeaf(ZeroBytes32)),
   Hex(HashNode(ZeroBytes32, ZeroBytes32)), <<PrefixChar, SignChar>>}

DoIsValidTree ==
  /\ kind = "none"
  /\ \E tree \in SeqsUpTo(NodeStrings, MaxArrayLen) :
       /\ call' = [op |-> "IsValidTree", tree |-> tree]
       /\ res' = [err |-> NoErr, ok |-> IsValidTree(tree)]
  /\ kind' = "pure"
  /\ UNCHANGED <<t, src>>

\* GetProof on any array the caller has, valid tree or not, with any index
DoGetProofOnArray ==
  /\ kind = "none"
  /\ \E tree \in SeqsUpTo({Hex(ZeroBytes32), <<PrefixChar, SignChar>>}, MaxArrayLen) :
       \E index \in -1..Len(tree) :
         /\ call' = [op |-> "GetProofOnArray", tree |-> tree, index |-> index]
         /\ res' = GetProof(tree, index)
  /\ kind' = "pure"
  /\ UNCHANGED <<t, src>>

\* GetMultiProof on any array, with any short list of indices
DoGetMultiProofOnArray ==
  /\ kind = "none"
  /\ \E tree \in SeqsUpTo({Hex(ZeroBytes32), <<PrefixChar, SignChar>>}, MaxArrayLen) :
       \E indices \in SeqsUpTo(-1..Len(tree), MaxBadIdx) :
         /\ call' = [op |-> "GetMultiProofOnArray", tree |-> tree, indices |-> indices]
         /\ res' = GetMultiProof(tree, indices)
  /\ kind' = "pure"
  /\ UNCHANGED <<t, src>>

\* an int256 field given an integer of any sign, within the word and beyond
DoEncodeInt ==
  /\ kind = "none"
  /\ \E n \in (-2 * Modulus)..(2 * Modulus) :
       /\ call' = [op |-> "EncodeInt", n |-> n]
       /\ res' = encodeValue("int256", [k |-> "int", v |-> n])
  /\ kind' = "pure"
  /\ UNCHANGED <<t, src>>

\* a MultiProof of any shape whose entries are any strings of the caller
DoProcessRawMultiProof ==
  /\ kind = "none"
  /\ LET strs == {Hex(ZeroBytes32), <<PrefixChar, SignChar>>}
     IN \E leaves \in SeqsUpTo(strs, MaxProofLen),
           proof \in SeqsUpTo(strs, MaxProofLen),
           flags \in SeqsUpTo(BOOLEAN, MaxProofLen + 1) :
          LET mp == [Leaves |-> leaves, Proof |-> proof, ProofFlags |-> flags]
          IN /\ call' = [op |-> "ProcessRawMultiProof", mp |-> mp]
             /\ res' = ProcessMultiProof(mp)
  /\ kind' = "pure"
  /\ UNCHANGED <<t, src>>

NextPure ==
  \/ DoHashNode
  \/ DoIsValidTree
  \/ DoGetProofOnArray
  \/ DoGetMultiProofOnArray
  \/ DoEncodeInt
  \/ DoProcessRawMultiProof

SpecPure == Init /\ [][NextPure]_vars

\* ======================================== the loop of GetMultiProof, stepwise
\* the validation and the sort are done, the work queue is the sorted list
DoLoopEnter ==
  /\ kind = "core" /\ call.op = "MakeTree"
  /\ \E indices \in DistinctSeqs(LeafPositions(t.tree)) \ {<<>>} :
       call' = [op |-> "Loop", indices |-> indices, steps |-> 0,
                st |-> [stack |-> SortDesc(indices), proof |-> <<>>,
                        flags |-> <<>>, err |-> NoErr]]
  /\ UNCHANGED <<kind, t, src, res>>

\* one pass through the body of  for len(stack) > 0 && stack[0] > 0
DoLoopStep ==
  /\ kind = "core" /\ call.op = "Loop"
  /\ call.st.err = NoErr /\ MultiProofLoopGuard(call.st)
  /\ call' = [call EXCEPT !.st = MultiProofStep(t.tree, call.st),
                          !.steps = call.steps + 1]
  /\ UNCHANGED <<kind, t, src, res>>

\* the loop condition fails: the root is appended if the queue is not a
\* single element, and the MultiProof is returned
DoLoopExit ==
  /\ kind = "core" /\ call.op = "Loop"
  /\ ~(call.st.err = NoErr /\ MultiProofLoopGuard(call.st))
  /\ call' = [call EXCEPT !.op = "LoopDone"]
  /\ res' = GetMultiProof(t.tree, call.indices)
  /\ UNCHANGED <<kind, t, src>>

NextLoop ==
  \/ DoMakeTree
  \/ DoLoopEnter
  \/ DoLoopStep
  \/ DoLoopExit

SpecLoop == Init /\ [][NextLoop]_vars

\* =============================================================== claims
\* the elements of a set of integers in strictly descending order
RECURSIVE DescSeq(_)
DescSeq(S) ==
  IF S = {} THEN <<>>
  ELSE LET m == CHOOSE x \in S : \A y \in S : y <= x
       IN <<m>> \o DescSeq(S \ {m})

Range(s) == {s[i] : i \in 1..Len(s)}
IsDescending(s) == \A i \in 1..(Len(s) - 1) : s[i] > s[i + 1]

\* C1: for a tree built by MakeTree and a non-empty list of distinct leaf
\* positions in any order, ProcessMultiProof of the MultiProof that
\* GetMultiProof returned succeeds and returns tree[0].
C1_MultiProofRoundTrip ==
  (kind = "core" /\ call.op = "ProcessMultiProof" /\ call.indices # <<>>)
    => (res.err = NoErr /\ res.root = At0(t.tree, 0))

\* a multi-proof of several leaves given out of order, with paired and
\* unpaired steps, has been processed
C1_Witness ==
  /\ kind = "core" /\ call.op = "ProcessMultiProof"
  /\ Len(call.indices) >= 2 /\ ~IsDescending(call.indices)
  /\ TRUE \in Range(call.mp.ProofFlags) /\ FALSE \in Range(call.mp.ProofFlags)
  /\ res.err = NoErr /\ res.root = At0(t.tree, 0)

\* C2: for a tree built by MakeTree from n leaves and every leaf position p
\* in n-1..2n-2, GetProof succeeds and ProcessProof(tree[p], proof) returns
\* tree[0]; for a single leaf the proof is empty and the result is the leaf.
C2_ProofRoundTrip ==
  /\ (kind = "core" /\ call.op = "GetProof"
        /\ call.index >= Len(src.leaves) - 1
        /\ call.index <= 2 * Len(src.leaves) - 2)
       => res.err = NoErr
  /\ (kind = "core" /\ call.op = "ProcessProof")
       => /\ res.err = NoErr
          /\ res.root = At0(t.tree, 0)
          /\ Len(src.leaves) = 1 => (call.proof = <<>> /\ res.root = Hex(src.leaves[1]))

\* a proof of two siblings has been folded to the root
C2_Witness ==
  /\ kind = "core" /\ call.op = "ProcessProof"
  /\ Len(call.proof) >= 2
  /\ res.err = NoErr /\ res.root = At0(t.tree, 0)

\* C3: MakeTree of a non-empty leaf sequence L returns an array of exactly
\* 2*len(L)-1 entries that IsValidTree accepts; of an empty L it returns
\* ErrEmptyTree and no tree.
C3_MakeTreeValid ==
  (call.op = "MakeTree") =>
    IF src.leaves = <<>>
      THEN res.err = "ErrEmptyTree" /\ res.tree = <<>> /\ kind = "failed"
      ELSE /\ res.err = NoErr
           /\ Len(res.tree) = 2 * Len(src.leaves) - 1
           /\ IsValidTree(res.tree)

\* a tree with internal nodes on two levels has been built
C3_Witness ==
  /\ call.op = "MakeTree" /\ Len(src.leaves) >= 3
  /\ Len(res.tree) = 2 * Len(src.leaves) - 1
  /\ IsValidTree(res.tree)

\* C4: every MultiProof that GetMultiProof returns without error satisfies
\* len(Leaves) + len(Proof) = len(ProofFlags) + 1.
C4_MultiProofShape ==
  (kind = "core" /\ call.op = "GetMultiProof" /\ res.err = NoErr)
    => Len(res.mp.Leaves) + Len(res.mp.Proof) = Len(res.mp.ProofFlags) + 1

\* a multi-proof with a paired and an unpaired step has been generated
C4_Witness ==
  /\ kind = "core" /\ call.op = "GetMultiProof" /\ res.err = NoErr
  /\ Len(res.mp.Leaves) >= 2
  /\ TRUE \in Range(res.mp.ProofFlags) /\ FALSE \in Range(res.mp.ProofFlags)
  /\ Len(res.mp.Leaves) + Len(res.mp.Proof) = Len(res.mp.ProofFlags) + 1

\* the leaves of a facade multi-proof in the order of their position in the
\* tree (descending tree index), as the caller of VerifyMultiProof needs them
LeavesByPosition(indices) ==
  LET desc == DescSeq(Range(TreeIndices(t, indices)))
  IN [k \in 1..Len(desc) |->
        (CHOOSE v \in Range(t.values) : v.TreeIndex = desc[k]).Value]

\* C5: for a Simple tree and a list of distinct value indices in any order,
\* the MultiProof returned by GetMultiProofByIndices (and by GetMultiProof on
\* the values) has its leaves ordered by position in the tree, not by caller
\* order, and VerifyMultiProof on it returns true.
C5_FacadeMultiProofOrdered ==
  (kind = "simple" /\ call.op = "VerifyMultiProof") =>
    LET indices == IF call.via.op = "GetMultiProof"
                     THEN ResolveLeaves(t, call.via.leaves, 1, <<>>).indices
                     ELSE call.via.indices
    IN /\ call.mp.Leaves = LeavesByPosition(indices)
       /\ res.err = NoErr /\ res.ok

\* C6: the Leaves of core GetMultiProof list tree[j] for the requested
\* positions j in strictly descending order, and every permutation of the
\* same index list yields the same Leaves, Proof and ProofFlags.  Every
\* arrangement of a set of positions is a call of its own, and each returns
\* what the descending arrangement returns, so any two of them agree.
C6_MultiProofOrderIndependent ==
  (kind = "core" /\ call.op = "GetMultiProof" /\ res.err = NoErr) =>
    LET desc == DescSeq(Range(call.indices))
    IN /\ Len(desc) = Len(call.indices)
       /\ res.mp.Leaves = [k \in 1..Len(desc) |-> At0(t.tree, desc[k])]
       /\ GetMultiProof(t.tree, desc) = res

\* a multi-proof has been generated for indices given in ascending order
C6_Witness ==
  /\ kind = "core" /\ call.op = "GetMultiProof" /\ res.err = NoErr
  /\ Len(call.indices) >= 3
  /\ \A i \in 1..(Len(call.indices) - 1) : call.indices[i] < call.indices[i + 1]
  /\ At0(t.tree, call.indices[1]) # At0(t.tree, call.indices[2])
  /\ res.mp.Leaves[1] = At0(t.tree, call.indices[Len(call.indices)])

\* C7 as stated: GetMultiProof on a valid tree with an empty index list
\* returns the MultiProof whose leaves, proof and flags are all empty.
C7_EmptyIndicesAllEmpty ==
  (kind = "core" /\ call.op = "GetMultiProof" /\ call.indices = <<>>)
    => (res.err = NoErr /\ res.mp = NoMultiProof)

\* C7 amended: GetMultiProof on a valid tree with an empty index list
\* returns, without error, the MultiProof whose leaves and flags are empty
\* and whose proof is the single entry tree[0].
C7_EmptyIndicesRootOnly ==
  (kind = "core" /\ call.op = "GetMultiProof" /\ call.indices = <<>>)
    => /\ res.err = NoErr
       /\ res.mp = [Leaves |-> <<>>, Proof |-> <<At0(t.tree, 0)>>, ProofFlags |-> <<>>]

\* GetMultiProof has been called with no indices on a tree of several leaves
C7_Witness ==
  /\ kind = "core" /\ call.op = "GetMultiProof" /\ call.indices = <<>>
  /\ Len(t.tree) >= 3 /\ IsValidTree(t.tree)
  /\ res.err = NoErr /\ Len(res.mp.Proof) = 1

\* C8: for a Simple or Standard tree, sorted or not, and every value stored
\* in it, GetProof (by value) and GetProofByIndex (by position) succeed,
\* Verify of the value with the proof returns true, and the static verifier
\* called with the tree's Root returns the same.
C8_FacadeProofVerifies ==
  /\ (IsFacade /\ call.op = "GetProof" /\ call.leaf \in Range(src.values))
       => res.err = NoErr
  /\ (IsFacade /\ call.op = "GetProofByIndex" /\ InRange(t.values, call.i))
       => res.err = NoErr
  /\ (IsFacade /\ call.op \in {"Verify", "VerifyStatic"})
       => (res.err = NoErr /\ res.ok)

\* the proof of a value of a sorted tree of three values has been verified
\* by the static verifier
C8_Witness ==
  /\ IsFacade /\ call.op = "VerifyStatic" /\ src.sortLeaves
  /\ Len(t.values) = 3 /\ Len(call.proof) = 2
  /\ res.err = NoErr /\ res.ok

\* C9: with sortLeaves = true, facade trees built from two permutations of
\* the same multiset of values, repeated values included, have the same Root.
C9_SortedRootPermutationInvariant ==
  (IsFacade /\ call.op = "NewPermuted" /\ src.sortLeaves)
    => (res.err = NoErr /\ Root(t) = call.prevRoot)

\* a sorted tree has been rebuilt from a different arrangement of values
\* among which one is repeated
C9_Witness ==
  /\ IsFacade /\ call.op = "NewPermuted" /\ src.sortLeaves
  /\ src.values # call.prevValues
  /\ Len(src.values) = 3 /\ Cardinality(Range(src.values)) = 2
  /\ Root(t) = call.prevRoot

\* C10: for a tree t from NewSimpleMerkleTree or NewStandardMerkleTree, Load
\* of t.Dump() succeeds and the loaded tree has the Root and the Len of t.
C10_DumpLoadRoundTrip ==
  (IsFacade /\ call.op = "LoadDumped")
    => /\ res.err = NoErr
       /\ Root(t) = Root(call.from)
       /\ TreeLen(t) = TreeLen(call.from)

\* the dump of a sorted tree of several values has been loaded
C10_Witness ==
  /\ IsFacade /\ call.op = "LoadDumped" /\ src.sortLeaves
  /\ Len(call.data.Values) >= 2
  /\ res.err = NoErr /\ TreeLen(t) = Len(src.values)

\* the format tag the facade in hand expects
OwnTag == IF kind = "simple" THEN "simple-v1" ELSE "standard-v1"

\* C11: Load of data whose format tag is not the facade's own tag returns
\* INVALID_FORMAT and no tree, whatever the tree and the values of the data
\* are; no validation error or out-of-range read comes first.
C11_WrongTagRejected ==
  (IsFacade /\ call.op = "LoadData" /\ call.data.Format # OwnTag)
    => (res.err = "ErrInvalidFormat" /\ t = NoTree)

\* data with the other facade's tag, an empty tree and a value left in it
\* has been rejected for its tag
C11_Witness ==
  /\ IsFacade /\ call.op = "LoadData"
  /\ call.data.Format \in {"simple-v1", "standard-v1"} \ {OwnTag}
  /\ call.data.Tree = <<>> /\ call.data.Values # <<>>
  /\ res.err = "ErrInvalidFormat"

\* C12: Load of data with the facade's own tag returns INVARIANT and no
\* tree whenever the leaf hash derived from some value differs from the tree
\* entry at the value's tree index, or the tree array fails IsValidTree
\* (it is empty, of even length, or an internal node is not the hash of its
\* children).
C12_InvalidDataIsInvariant ==
  (IsFacade /\ call.op = "LoadData" /\ call.data.Format = OwnTag) =>
    LET data == call.data
        derived(v) == IF kind = "simple"
                        THEN LET b == HexToBytes32(v.Value)
                             IN [hash |-> HashLeaf(b.val), err |-> b.err]
                        ELSE encodeAndHash(data.LeafEncoding, v.Value)
        differs(v) == /\ derived(v).err = NoErr
                      /\ InRange(data.Tree, v.TreeIndex)
                      /\ At0(data.Tree, v.TreeIndex) # Hex(derived(v).hash)
    IN ((\E k \in 1..Len(data.Values) : differs(data.Values[k]))
          \/ ~IsValidTree(data.Tree))
         => (res.err = "ErrInvariant" /\ t = NoTree)

\* C13: Load does not crash on the caller's data: when the tree index of a
\* value is negative or not smaller than the length of the tree array, Load
\* returns an error value and does not read outside the array.
C13_LoadNeverPanics ==
  (IsFacade /\ call.op = "LoadData"
     /\ \E k \in 1..Len(call.data.Values) :
          ~InRange(call.data.Tree, call.data.Values[k].TreeIndex))
    => (res.err # NoErr /\ res.err # Panic)

\* C14: in every tree that Load accepted, the tree indices of the stored
\* values are pairwise distinct and each of them is a leaf position of the
\* tree array, i.e. lies in [n-1 .. 2n-2] for the array length 2n-1.
C14_LoadedIndicesDistinctLeaves ==
  (IsFacade /\ call.op = "LoadData" /\ res.err = NoErr) =>
    LET n == (Len(t.tree) + 1) \div 2
        index(k) == t.values[k].TreeIndex
    IN /\ Len(t.tree) = 2 * n - 1
       /\ \A k \in 1..Len(t.values) : index(k) >= n - 1 /\ index(k) <= 2 * n - 2
       /\ \A j, k \in 1..Len(t.values) : j # k => index(j) # index(k)

\* C15: a facade tree is immutable once constructed or loaded: an
\* assignment by the caller to an element of a slice of the data object that
\* Dump returned, of the data object handed to Load, or of the values or the
\* schema handed to New, leaves the tree array, the stored values and the
\* leaf encoding of the tree (so its Root and every later result) as they
\* were.
C15_CallerWritesLeaveTree ==
  (IsFacade /\ call.op = "Write") => t = call.before

C17_IndexValidation ==
  LET n == Len(t.tree)
      expected(i) == IF i < 0 \/ i >= n THEN "ErrIndexOutOfBounds"
                     ELSE IF 2 * i + 1 < n THEN "ErrNotALeaf"
                     ELSE NoErr
  IN /\ (kind = "core" /\ call.op = "GetProof" /\ expected(call.index) # NoErr) =>
          res = [proof |-> <<>>, err |-> expected(call.index)]
     /\ (kind = "core" /\ call.op = "GetMultiProof") =>
          \A k \in 1..Len(call.indices) :
            (/\ expected(call.indices[k]) # NoErr
             /\ \A j \in 1..(k - 1) : expected(call.indices[j]) = NoErr) =>
               res = [mp |-> NoMultiProof, err |-> expected(call.indices[k])]

\* a multi-proof was asked for the root of a tree of several leaves, twice
\* in one list: the answer is ErrNotALeaf, not ErrDuplicatedIndex
C17_Witness ==
  /\ kind = "core" /\ call.op = "GetMultiProof"
  /\ Len(t.tree) >= 3 /\ call.indices = <<0, 0>>
  /\ res.err = "ErrNotALeaf"

\* a single proof was asked for the index one past the array
C17_WitnessOutOfBounds ==
  /\ kind = "core" /\ call.op = "GetProof"
  /\ Len(t.tree) >= 3 /\ call.index = Len(t.tree)
  /\ res.err = "ErrIndexOutOfBounds"

\* C18: GetMultiProof returns ErrDuplicatedIndex and no MultiProof when its
\* index list holds one leaf position more than once, wherever in the list
\* the repeats are; SimpleMerkleTree.GetMultiProof asked for values of the
\* tree with one value twice returns the same.
C18_DuplicateRejected ==
  (/\ kind = "simple" /\ call.op = "GetMultiProof"
   /\ \E i, j \in 1..Len(call.leaves) : i < j /\ call.leaves[i] = call.leaves[j]
   /\ \A k \in 1..Len(call.leaves) : SimpleLeafIndex(t, call.leaves[k]).err = NoErr) =>
    LET indices == [k \in 1..Len(call.leaves) |->
                      At0(t.values, SimpleLeafIndex(t, call.leaves[k]).i).TreeIndex]
    IN /\ \E i, j \in 1..Len(indices) : i < j /\ indices[i] = indices[j]
       /\ GetMultiProof(t.tree, indices) = [mp |-> NoMultiProof, err |-> "ErrDuplicatedIndex"]
       /\ res = [mp |-> NoMultiProof, err |-> "ErrDuplicatedIndex"]

\* three values were asked for, the last two the same one, stored below
\* the first in the tree array
C18_Witness ==
  /\ kind = "simple" /\ call.op = "GetMultiProof"
  /\ Len(call.leaves) = 3 /\ call.leaves[2] = call.leaves[3]
  /\ call.leaves[1] # call.leaves[2]
  /\ \A k \in 1..3 : SimpleLeafIndex(t, call.leaves[k]).err = NoErr
  /\ At0(t.values, SimpleLeafIndex(t, call.leaves[1]).i).TreeIndex
       > At0(t.values, SimpleLeafIndex(t, call.leaves[2]).i).TreeIndex
  /\ res.err = "ErrDuplicatedIndex"

\* C19: ProcessProof fails with ErrInvalidHex, and returns no root, whenever
\* an entry of the proof is malformed: text that is not hexadecimal, or
\* hexadecimal text of a length other than that of a node.
C19_MalformedEntryIsInvalidHex ==
  (kind = "core" /\ call.op = "ProcessProofMalformed") =>
    res = [root |-> <<>>, err |-> "ErrInvalidHex"]

\* C20: for a MultiProof whose entries are all well-formed, ProcessMultiProof
\* returns ErrInvariant and no root, and reads nothing beyond the end of
\* leaves or proof, whenever len(leaves) + len(proof) # len(flags) + 1, or
\* some flag is reached with the queue empty, or a true flag finds a single
\* element in the queue, or a false flag finds every proof entry used.
\* Before flag k the queue holds len(leaves) less the true flags so far,
\* and the false flags so far are the proof entries used.
C20_MalformedShapeIsInvariant ==
  (kind = "core" /\ call.op = "ProcessAnyMultiProof") =>
    LET mp == call.mp
        trues(k) == Cardinality({j \in 1..(k - 1) : mp.ProofFlags[j]})
        queue(k) == Len(mp.Leaves) - trues(k)
        used(k) == (k - 1) - trues(k)
        broken(k) == \/ queue(k) = 0
                     \/ mp.ProofFlags[k] /\ queue(k) = 1
                     \/ ~mp.ProofFlags[k] /\ used(k) >= Len(mp.Proof)
    IN (\/ Len(mp.Leaves) + Len(mp.Proof) # Len(mp.ProofFlags) + 1
        \/ \E k \in 1..Len(mp.ProofFlags) : broken(k)) =>
         res = [root |-> <<>>, err |-> "ErrInvariant"]

\* the lengths agree, and the second flag, a true one, finds one element
C20_Witness ==
  /\ kind = "core" /\ call.op = "ProcessAnyMultiProof"
  /\ Len(call.mp.Leaves) = 2 /\ Len(call.mp.Proof) = 1
  /\ call.mp.ProofFlags = <<TRUE, TRUE>>
  /\ res.err = "ErrInvariant"

\* C21: HashNode is commutative: for every pair of 32-byte values a and b,
\* a = b included, HashNode(a, b) = HashNode(b, a), both are the hash of
\* the smaller value followed by the larger one in lexicographic byte
\* order, and a and b are as they were.
C21_HashNodeCommutative ==
  (kind = "pure" /\ call.op = "HashNode") =>
    LET a == call.a
        b == call.b
        m == IF Len(a) < Len(b) THEN Len(a) ELSE Len(b)
        before(x, y) == \/ \E i \in 1..m : x[i] < y[i] /\ \A j \in 1..(i - 1) : x[j] = y[j]
                        \/ Len(x) < Len(y) /\ \A j \in 1..m : x[j] = y[j]
        lo == IF before(b, a) THEN b ELSE a
        hi == IF before(b, a) THEN a ELSE b
    IN /\ res.ab = res.ba
       /\ res.ab = Keccak256(lo \o hi)
       /\ res.args = <<a, b>>

\* the first value is the larger one
C21_Witness ==
  /\ kind = "pure" /\ call.op = "HashNode"
  /\ Less(call.b, call.a)
  /\ res.ab = Keccak256(call.b \o call.a)

\* C22: with a collision-free hash, a proof with one entry replaced by a
\* different 32-byte value no longer folds to the root: ProcessProof from
\* the leaf gives a value other than tree[0] and Verify returns false; and
\* a proof of one tree is rejected by Verify on a tree built from values
\* none of which is a value of the first tree.
C22_TamperedProofRejected ==
  /\ (IsFacade /\ call.op = "VerifyTampered") =>
       /\ res = [ok |-> FALSE, err |-> NoErr]
       /\ ProcessProof(InputLeafHash(kind, call.leaf), call.proof).root # At0(t.tree, 0)
       /\ ProcessProof(InputLeafHash(kind, call.leaf), call.genuine).root = At0(t.tree, 0)
  /\ (IsFacade /\ call.op = "VerifyForeign") =>
       res = [ok |-> FALSE, err |-> NoErr]

\* the second entry of a proof of two entries was replaced
C22_Witness ==
  /\ IsFacade /\ call.op = "VerifyTampered"
  /\ Len(call.proof) = 2 /\ call.proof[1] = call.genuine[1]
  /\ call.proof[2] # call.genuine[2]
  /\ ~res.ok

\* a proof of two entries was verified on a tree of other values
C22_WitnessForeign ==
  /\ IsFacade /\ call.op = "VerifyForeign"
  /\ Len(call.proof) = 2 /\ Len(call.other.values) >= 2
  /\ ~res.ok

\* C23: in a Simple tree the leaves are not double-hashed: the node stored
\* at the tree position of a value is the value itself or one hash of it,
\* never the hash of the hash of the value.
C23_SimpleLeavesHashedOnce ==
  (kind = "simple" /\ call.op = "New" /\ res.err = NoErr) =>
    \A i \in 1..Len(t.values) :
      LET v == HexToBytes32(t.values[i].Value).val
          node == At0(t.tree, t.values[i].TreeIndex)
      IN /\ node \in {Hex(v), Hex(Keccak256(v))}
         /\ node # Hex(Keccak256(Keccak256(v)))

\* C24: in a facade tree built by New from n values, sorted or not, the
\* stored values are the inputs in input order; the tree index of input i
\* is (2n-2) less its position in the leaf sequence, which is the input
\* order or, when sorted, an order of non-decreasing leaf hash; the tree
\* indices are a bijection onto n-1 .. 2n-2; and the node at the tree index
\* of input i is the leaf hash of input i.
C24_ValuesKeepInputOrder ==
  (IsFacade /\ call.op \in {"New", "NewPermuted"} /\ res.err = NoErr) =>
    LET n == Len(src.values)
        idx(i) == t.values[i].TreeIndex
        pos(i) == (2 * n - 2) - idx(i)
        h(i) == InputLeafHash(kind, src.values[i])
    IN /\ Len(t.values) = n /\ Len(t.tree) = 2 * n - 1
       /\ \A i \in 1..n :
            /\ t.values[i].Value =
                 IF kind = "simple" THEN Hex(src.values[i]) ELSE src.values[i]
            /\ At0(t.tree, idx(i)) = Hex(h(i))
            /\ ~src.sortLeaves => pos(i) = i - 1
       /\ {idx(i) : i \in 1..n} = (n - 1)..(2 * n - 2)
       /\ Cardinality({idx(i) : i \in 1..n}) = n
       /\ src.sortLeaves =>
            \A i, j \in 1..n : Less(h(i), h(j)) => pos(i) < pos(j)

\* a sorted tree of three values whose first input is not its first leaf
C24_Witness ==
  /\ IsFacade /\ call.op = "New" /\ res.err = NoErr
  /\ src.sortLeaves /\ Len(src.values) = 3
  /\ t.values[1].TreeIndex # 4
  /\ \A i, j \in 1..3 : i # j => t.values[i].TreeIndex # t.values[j].TreeIndex

\* C25: IsValidTree returns true exactly when the array is not empty, has
\* odd length, every entry parses as a 32-byte value, and every index i
\* with 2i+2 < len holds the pair hash of the entries at 2i+1 and 2i+2; an
\* array of even length is rejected.
C25_IsValidTreeExact ==
  (kind = "pure" /\ call.op = "IsValidTree") =>
    LET tree == call.tree
        n == Len(tree)
        val(i) == HexToBytes32(tree[i + 1]).val
    IN /\ res.ok <=>
            /\ n # 0 /\ n % 2 = 1
            /\ \A i \in 0..(n - 1) : HexToBytes32(tree[i + 1]).err = NoErr
            /\ \A i \in 0..(n - 1) :
                 2 * i + 2 < n => val(i) = HashNode(val(2 * i + 1), val(2 * i + 2))
       /\ n % 2 = 0 => ~res.ok

\* an array of even length whose entries all parse and whose root is the
\* pair hash of its two children
C25_Witness ==
  /\ kind = "pure" /\ call.op = "IsValidTree"
  /\ Len(call.tree) = 4 /\ ~res.ok
  /\ \A i \in 1..4 : HexToBytes32(call.tree[i]).err = NoErr
  /\ HexToBytes32(call.tree[1]).val =
       HashNode(HexToBytes32(call.tree[2]).val, HexToBytes32(call.tree[3]).val)

\* an array of three entries that is a valid tree
C25_WitnessValid ==
  /\ kind = "pure" /\ call.op = "IsValidTree"
  /\ Len(call.tree) = 3 /\ res.ok

\* C26: the core GetProof and GetMultiProof never read outside the array,
\* whatever array and indices the caller supplies: on an array that is not
\* a valid tree they return a proof or an error and do not crash.
C26_ProofsNeverReadOutside ==
  (kind = "pure" /\ call.op \in {"GetProofOnArray", "GetMultiProofOnArray"}) =>
    res.err # Panic

\* C27: for a field of type int<k> and an integer of any magnitude and
\* sign, the encoder returns an error or exactly one word that is the
\* big-endian form of the value modulo 2^256 (here Modulus); it does not
\* crash and returns no other bytes.
C27_EncodeIntModular ==
  (kind = "pure" /\ call.op = "EncodeInt") =>
    \/ res.err = "ErrAbiEncode" /\ res.bytes = <<>>
    \/ res.err = NoErr /\ res.bytes = WordOf(call.n % Modulus)

\* C28: in GetMultiProof on a tree built by MakeTree, with a non-empty set
\* of distinct leaf positions, the work queue is strictly descending in
\* every state of the loop, the loop terminates, and it ends with the queue
\* equal to [0], so tree[0] is not appended to the proof.  Termination: the
\* head of the queue is a natural number that every pass makes smaller.
C28_LoopQueueDescendingToRoot ==
  (kind = "core" /\ call.op \in {"Loop", "LoopDone"}) =>
    LET st == call.st
        next == MultiProofStep(t.tree, st)
    IN /\ st.err = NoErr
       /\ Len(st.stack) >= 1 /\ st.stack[Len(st.stack)] >= 0
       /\ \A i \in 1..(Len(st.stack) - 1) : st.stack[i] > st.stack[i + 1]
       /\ call.steps < Len(t.tree)
       /\ (call.op = "Loop" /\ MultiProofLoopGuard(st)) =>
            /\ next.err = NoErr /\ Len(next.stack) >= 1
            /\ next.stack[1] < st.stack[1]
       /\ (call.op = "Loop" /\ ~MultiProofLoopGuard(st)) => st.stack = <<0>>
       /\ call.op = "LoopDone" =>
            /\ st.stack = <<0>>
            /\ res.err = NoErr
            /\ res.mp.Proof = st.proof

\* the loop ran three times or more for three leaves or more and is over
C28_Witness ==
  /\ kind = "core" /\ call.op = "LoopDone"
  /\ Len(call.indices) >= 3 /\ call.steps >= 3
  /\ call.st.stack = <<0>>

\* C29: whenever ProcessMultiProof returns without error, whatever the
\* MultiProof, the root it returns is a well-formed node: the prefix and
\* the lower-case digits of a 32-byte value that was parsed from an entry
\* or produced by HashNode; no string is returned unvalidated.
C29_ReturnedRootWellFormed ==
  (kind = "pure" /\ call.op = "ProcessRawMultiProof" /\ res.err = NoErr) =>
    /\ HexToBytes32(res.root).err = NoErr
    /\ res.root = Hex(HexToBytes32(res.root).val)

\* C30: for every tree that Load accepted and every stored value i,
\* Verify(value i, GetProofByIndex(i)) returns true, also when the node
\* strings of the loaded array are spelled in another way the parser of
\* 32-byte values accepts: without the prefix, or with upper-case digits.
C30_LoadedValuesVerify ==
  (IsFacade /\ call.op = "VerifyLoaded") => res = [ok |-> TRUE, err |-> NoErr]

====
